---- MODULE Spec2Model ----
(***************************************************************************)
(* ResumeForge-AI: the content-rewrite engine (IntelligentResumeOptimizer)  *)
(* with its cross-document rewrite state, modelled as a state machine.      *)
(* Texts are TLA+ strings; the regular expressions of the source are        *)
(* computed character by character.                                         *)
(***************************************************************************)
EXTENDS Integers, Sequences, FiniteSets, TLC

(***************************************************************************)
(* Characters and the Python string primitives the source relies on.        *)
(***************************************************************************)
Ch(s, i) == SubSeq(s, i, i)

UpperAlpha == "ABCDEFGHIJKLMNOPQRSTUVWXYZ"
LowerAlpha == "abcdefghijklmnopqrstuvwxyz"
UpperSet == {Ch(UpperAlpha, i) : i \in 1..26}
LowerSet == {Ch(LowerAlpha, i) : i \in 1..26}
Digits == {"0", "1", "2", "3", "4", "5", "6", "7", "8", "9"}
\* \w of the re module, \s of the re module
WordChars == UpperSet \cup LowerSet \cup Digits \cup {"_"}
SpaceChars == {" ", "\t", "\n"}

LowerCh(c) ==
    IF c \in UpperSet
    THEN Ch(LowerAlpha, CHOOSE i \in 1..26 : Ch(UpperAlpha, i) = c)
    ELSE c

\* str.lower()
RECURSIVE LowerFrom(_, _)
LowerFrom(s, i) ==
    IF i > Len(s) THEN "" ELSE LowerCh(Ch(s, i)) \o LowerFrom(s, i + 1)
lower(s) == LowerFrom(s, 1)

\* str.strip()
RECURSIVE LStripIdx(_, _)
LStripIdx(s, i) ==
    IF i > Len(s) THEN i
    ELSE IF Ch(s, i) \in SpaceChars THEN LStripIdx(s, i + 1) ELSE i
RECURSIVE RStripIdx(_, _)
RStripIdx(s, i) ==
    IF i < 1 THEN i
    ELSE IF Ch(s, i) \in SpaceChars THEN RStripIdx(s, i - 1) ELSE i
strip(s) ==
    LET a == LStripIdx(s, 1)
        b == RStripIdx(s, Len(s))
    IN  IF a > b THEN "" ELSE SubSeq(s, a, b)

\* Python's `sub in s`
Contains(s, sub) ==
    \E i \in 1..(Len(s) - Len(sub) + 1) : SubSeq(s, i, i + Len(sub) - 1) = sub

\* s[i:] starts with lit
StartsAt(s, i, lit) ==
    /\ i >= 1
    /\ i + Len(lit) - 1 <= Len(s)
    /\ SubSeq(s, i, i + Len(lit) - 1) = lit

\* last index of the maximal run of characters of cls that starts at i
\* (i - 1 when the character at i is not in cls)
RECURSIVE RunEnd(_, _, _)
RunEnd(cls, s, i) ==
    IF i <= Len(s) /\ Ch(s, i) \in cls THEN RunEnd(cls, s, i + 1) ELSE i - 1

\* re.findall of a maximal-run pattern such as \d+ or \w+, from index i on
RECURSIVE FindRuns(_, _, _)
FindRuns(cls, s, i) ==
    IF i > Len(s) THEN <<>>
    ELSE IF Ch(s, i) \in cls
         THEN LET e == RunEnd(cls, s, i)
              IN  <<SubSeq(s, i, e)>> \o FindRuns(cls, s, e + 1)
         ELSE FindRuns(cls, s, i + 1)

Range(f) == {f[k] : k \in DOMAIN f}

\* one of a pair of values
Min(a, b) == IF a < b THEN a ELSE b

\* seq[:n]
Take(seq, n) == SubSeq(seq, 1, Min(n, Len(seq)))

(***************************************************************************)
(* Class constants of IntelligentResumeOptimizer.                           *)
(***************************************************************************)
ALL_POWER_VERBS ==
    << "Spearheaded", "Directed", "Led", "Drove", "Championed", "Orchestrated",
       "Architected", "Engineered", "Built", "Designed", "Implemented", "Developed",
       "Optimized", "Enhanced", "Streamlined", "Improved", "Accelerated", "Refined",
       "Scaled", "Expanded", "Migrated", "Transformed", "Modernized",
       "Delivered", "Shipped", "Launched", "Deployed", "Released", "Executed",
       "Reduced", "Increased", "Created", "Established", "Coordinated" >>

\* verb.lower() of the power verbs, tabulated
verb_lower == [verb \in Range(ALL_POWER_VERBS) |-> lower(verb)]

\* the keys the Counter used_verbs can hold
VerbKeys == {verb_lower[verb] : verb \in Range(ALL_POWER_VERBS)}

\* Counter(): every key reads as 0
EmptyCounter == [v \in VerbKeys |-> 0]

\* METRIC_PATTERNS: each pattern is \d+ followed by a literal, except
\* \d+\.\d+% and \d+,\d+ which are followed by more digits.  A trailing
\* optional character (hours?, [KMB]\+?) never decides a search.
MetricLiterals ==
    << "%", "+", "K", "M", "B", "x", "TB", "GB",
       " hour", " minute", " user", " table", " event", " report" >>

\* \d+<lit> matches with its last digit at i
DigitThen(s, i, lit) == StartsAt(s, i + 1, lit)

\* \d+\.\d+% matches with the last digit of its first \d+ at i
DecimalPercent(s, i) ==
    /\ StartsAt(s, i + 1, ".")
    /\ i + 2 <= Len(s)
    /\ Ch(s, i + 2) \in Digits
    /\ StartsAt(s, RunEnd(Digits, s, i + 2) + 1, "%")

\* \d+,\d+ matches with the last digit of its first \d+ at i
DigitCommaDigit(s, i) ==
    /\ StartsAt(s, i + 1, ",")
    /\ i + 2 <= Len(s)
    /\ Ch(s, i + 2) \in Digits

\* any(re.search(pattern, content) for pattern in METRIC_PATTERNS)
_has_metrics(content) ==
    \E i \in 1..Len(content) :
        /\ Ch(content, i) \in Digits
        /\ \/ \E k \in DOMAIN MetricLiterals : DigitThen(content, i, MetricLiterals[k])
           \/ DecimalPercent(content, i)
           \/ DigitCommaDigit(content, i)

\* re.match(r'^([A-Z][a-z]+)', content.strip())
_extract_leading_verb(content) ==
    LET s == strip(content)
    IN  IF Len(s) >= 2 /\ Ch(s, 1) \in UpperSet /\ Ch(s, 2) \in LowerSet
        THEN SubSeq(s, 1, RunEnd(LowerSet, s, 2))
        ELSE ""

\* \b<verb>\b matches exactly when the verb is a maximal run of \w characters
WordsOf(s) == Range(FindRuns(WordChars, s, 1))

\* _extract_all_verbs matching the verbs against the text as written rather
\* than against content.lower()
extract_verbs_as_written(content) ==
    LET words == WordsOf(content)
    IN  SelectSeq(ALL_POWER_VERBS, LAMBDA verb : verb_lower[verb] \in words)

_extract_all_verbs(content) ==
    LET words == WordsOf(lower(content))
    IN  SelectSeq(ALL_POWER_VERBS, LAMBDA verb : verb_lower[verb] \in words)

\* threshold of preserved numbers, as the fraction NumKeepNum / NumKeepDen
NumKeepNum == 8
NumKeepDen == 10
\* the length band, as LenMaxFactor and LenMinNum / LenMinDen
LenMaxFactor == 3
LenMinNum == 4
LenMinDen == 10

\* _validate_simple without its rule on numbers (lines 515-518 left out)
validate_length_only(original, optimized) ==
    IF \/ Len(optimized) > Len(original) * LenMaxFactor
       \/ Len(optimized) * LenMinDen < Len(original) * LenMinNum
    THEN FALSE
    ELSE TRUE

\* _validate_simple without its rule on lengths (lines 520-521 left out)
validate_numbers_only(original, optimized) ==
    LET orig_nums == FindRuns(Digits, original, 1)
        preserved == Cardinality({k \in DOMAIN orig_nums :
                                     Contains(optimized, orig_nums[k])})
    IN  IF Len(orig_nums) > 0
           /\ preserved * NumKeepDen < NumKeepNum * Len(orig_nums)
        THEN FALSE
        ELSE TRUE

_validate_simple(original, optimized) ==
    LET orig_nums == FindRuns(Digits, original, 1)
        preserved == Cardinality({k \in DOMAIN orig_nums :
                                     Contains(optimized, orig_nums[k])})
    IN  IF Len(orig_nums) > 0
           /\ preserved * NumKeepDen < NumKeepNum * Len(orig_nums)
        THEN FALSE
        ELSE IF \/ Len(optimized) > Len(original) * LenMaxFactor
                \/ Len(optimized) * LenMinDen < Len(original) * LenMinNum
             THEN FALSE
             ELSE TRUE

\* re.findall(r'\b[a-z]+\b', s.lower()): the \w runs made of a-z only
LowerWords(s) ==
    SelectSeq(FindRuns(WordChars, lower(s), 1),
              LAMBDA w : RunEnd(LowerSet, w, 1) = Len(w))

\* Counter(words)[w]
CountOf(words, w) == Cardinality({k \in DOMAIN words : words[k] = w})

\* RepetitionAnalysis (suggested_synonyms is never read again and is left out)
_analyze_repetitions(content) ==
    LET words == LowerWords(content)
        repeated == {w \in Range(words) : CountOf(words, w) >= 3 /\ Len(w) > 3}
    IN  [repeated_words |-> [w \in repeated |-> CountOf(words, w)],
         severity |-> IF repeated = {} THEN "low" ELSE "high"]

_count_repetitions_fixed(original_analysis, optimized) ==
    LET opt_words == LowerWords(optimized)
        rw == original_analysis.repeated_words
        fixed == {w \in DOMAIN rw : CountOf(opt_words, w) < rw[w]}
    IN  [w \in fixed |-> rw[w] - CountOf(opt_words, w)]

_extract_keywords(content, profile) ==
    LET content_lower == lower(content)
    IN  SelectSeq(profile.primary_keywords \o profile.secondary_keywords,
                  LAMBDA keyword : Contains(content_lower, lower(keyword)))

_find_missing_keywords(content, profile) ==
    LET content_lower == lower(content)
    IN  Take(SelectSeq(profile.primary_keywords,
                       LAMBDA keyword : ~Contains(content_lower, lower(keyword))),
             10)

(***************************************************************************)
(* _clean_output                                                            *)
(***************************************************************************)
\* re.sub(r'^[\d\-\*]+[\.\)]\s*', '', text): a leading list marker
ListMarkerChars == Digits \cup {"-", "*"}
StripListMarker(text) ==
    LET e == RunEnd(ListMarkerChars, text, 1)
    IN  IF e >= 1 /\ e + 1 <= Len(text) /\ Ch(text, e + 1) \in {".", ")"}
        THEN LET r == RunEnd(SpaceChars, text, e + 2)
             IN  SubSeq(text, r + 1, Len(text))
        ELSE text

\* last index of the maximal run of characters other than "*" starting at i
RECURSIVE NoStarEnd(_, _)
NoStarEnd(s, i) ==
    IF i <= Len(s) /\ Ch(s, i) # "*" THEN NoStarEnd(s, i + 1) ELSE i - 1

\* re.sub(mark ([^*]+) mark, r'\1', s) for mark "**" or "*", from index i on
RECURSIVE SubEmphasis(_, _, _)
SubEmphasis(mark, s, i) ==
    IF i > Len(s) THEN ""
    ELSE LET b == i + Len(mark)
             e == NoStarEnd(s, b)
         IN  IF StartsAt(s, i, mark) /\ e >= b /\ StartsAt(s, e + 1, mark)
             THEN SubSeq(s, b, e) \o SubEmphasis(mark, s, e + 1 + Len(mark))
             ELSE Ch(s, i) \o SubEmphasis(mark, s, i + 1)

\* the places where re.split(r'[.!?]\s+', text) cuts
SentenceBreaks(text) ==
    {i \in 1..(Len(text) - 1) :
        Ch(text, i) \in {".", "!", "?"} /\ Ch(text, i + 1) \in SpaceChars}

FirstSentence(text) ==
    LET breaks == SentenceBreaks(text)
    IN  IF Cardinality(breaks) >= 2
        THEN LET first == CHOOSE i \in breaks : \A k \in breaks : i <= k
                 head == SubSeq(text, 1, first - 1)
             IN  IF Len(head) > 0 /\ Ch(head, Len(head)) = "."
                 THEN head ELSE head \o "."
        ELSE text

\* re.sub(r'\s+', ' ', s), from index i on
RECURSIVE CollapseSpaces(_, _)
CollapseSpaces(s, i) ==
    IF i > Len(s) THEN ""
    ELSE IF Ch(s, i) \in SpaceChars
         THEN " " \o CollapseSpaces(s, RunEnd(SpaceChars, s, i) + 1)
         ELSE Ch(s, i) \o CollapseSpaces(s, i + 1)

_clean_output(text, section_type) ==
    IF text = "" THEN text
    ELSE LET t1 == strip(text)
             t2 == StripListMarker(t1)
             t3 == SubEmphasis("**", t2, 1)
             t4 == SubEmphasis("*", t3, 1)
             t5 == IF section_type = "experience" THEN FirstSentence(t4) ELSE t4
         IN  strip(CollapseSpaces(t5, 1))


(***************************************************************************)
(* _build_enhanced_prompt: the instruction payload, as a record of the      *)
(* parts of the f-string that vary.                                         *)
(***************************************************************************)
AiKeywords == {"ai", "ml", "llm", "rag", "genai"}
AiTechnologies == {"vector", "semantic", "nlp", "ai", "ml"}

\* sum of the values of a dict
RECURSIVE SumValues(_)
SumValues(f) ==
    IF DOMAIN f = {} THEN 0
    ELSE LET w == CHOOSE w \in DOMAIN f : TRUE
         IN  f[w] + SumValues([u \in DOMAIN f \ {w} |-> f[u]])

\* the selection of line 420 with "> 3"
overused_beyond_three(verb_counts) == {v \in VerbKeys : verb_counts[v] > 3}

\* line 420: [v for v, count in verb_counts.items() if count >= 3]
overused(verb_counts) == {v \in VerbKeys : verb_counts[v] >= 3}

_build_enhanced_prompt(content, section_type, missing_keywords, context_tech, repetition_analysis, verb_counts, needs_metrics) ==
    LET overused_verbs == overused(verb_counts)
        available_verbs ==
            SelectSeq(ALL_POWER_VERBS, LAMBDA v : verb_lower[v] \notin overused_verbs)
        current_verb == _extract_leading_verb(content)
        verb_warning ==
            IF /\ current_verb # ""
               /\ lower(current_verb) \in VerbKeys
               /\ verb_counts[lower(current_verb)] >= 2
            THEN <<current_verb, verb_counts[lower(current_verb)]>>
            ELSE <<>>
        ai_context == \E t \in DOMAIN context_tech :
                          lower(context_tech[t]) \in AiTechnologies
        relevant_kw ==
            SelectSeq(Take(missing_keywords, 5),
                      LAMBDA kw : lower(kw) \in AiKeywords => ai_context)
    IN  IF section_type = "experience"
        THEN [framing |-> "experience",
              current |-> content,
              keywords |-> Take(relevant_kw, 3),
              tech_context |-> Take(context_tech, 3),
              verbs_to_avoid |-> overused_verbs,
              verb_warning |-> verb_warning,
              available_verbs |-> Take(available_verbs, 12),
              metrics_guidance |-> needs_metrics,
              add_metrics_instruction |-> needs_metrics]
        ELSE IF section_type = "summary"
        THEN [framing |-> "summary",
              current |-> content,
              keywords |-> Take(relevant_kw, 2)]
        ELSE [framing |-> "projects",
              current |-> content,
              keywords |-> Take(relevant_kw, 2)]

(***************************************************************************)
(* optimize_content.  self is the optimizer's rewrite state; ai is what the *)
(* generation collaborator does when it is called: it returns a text        *)
(* (possibly empty), returns None, or raises.  The value is the returned    *)
(* OptimizationResult together with the state the call leaves behind and    *)
(* the payload it sent, if any.  The method is written as a chain of        *)
(* operators, one per stretch of its body, each taking the locals computed  *)
(* before it, so that every local is evaluated once.                        *)
(***************************************************************************)
MinContentLen == 10
MetricsTarget == 85

NoPrompt == [framing |-> "none"]
NoDict == [w \in {} |-> 0]

OptimizationResult(original, optimized, keywords_added, improvements, repetitions_fixed, factuality_score, has_metrics) ==
    [original |-> original, optimized |-> optimized,
     keywords_added |-> keywords_added, improvements |-> improvements,
     repetitions_fixed |-> repetitions_fixed,
     factuality_score |-> factuality_score, has_metrics |-> has_metrics]

\* the counting of lines 182-184 without the test of line 183
CountVerbsAgain(used_verbs, verbs, skip) ==
    [v \in VerbKeys |->
        used_verbs[v]
        + Cardinality({k \in DOMAIN verbs : verb_lower[verbs[k]] = v})]

\* for verb in verbs: used_verbs[verb.lower()] += 1, skipping the keys in skip
CountVerbs(used_verbs, verbs, skip) ==
    [v \in VerbKeys |->
        used_verbs[v]
        + Cardinality({k \in DOMAIN verbs :
                          verb_lower[verbs[k]] = v /\ verb_lower[verbs[k]] \notin skip})]

\* the value of a call: what it returns, the verb counts it leaves, the
\* payload it sent and the cleaned candidate it validated (if it got there)
NoCandidate == <<>>
Outcome(res, used, prompt, candidate) ==
    [result |-> res, used_verbs |-> used, prompt |-> prompt,
     candidate |-> candidate]

\* the test of line 103 on the untrimmed text
TooShortUntrimmed(content) == content = "" \/ Len(content) < MinContentLen

\* line 103: not content or len(content.strip()) < 10
TooShort(content) == content = "" \/ Len(strip(content)) < MinContentLen

\* the test of line 154 without its second half
NoResponseUntrimmed(ai) == ai.kind = "none" \/ ai.text = ""

\* line 154: not optimized or len(optimized.strip()) == 0
NoResponse(ai) == ai.kind = "none" \/ ai.text = "" \/ Len(strip(ai.text)) = 0

\* lines 194-216: the improvement tags and the result of an accepted rewrite
Rewritten(content, optimized, prompt, has_metrics_before, has_metrics_after, current_verb, new_verb, used2, new_keywords, repetitions_fixed) ==
    Outcome(OptimizationResult(content, optimized, new_keywords,
                (IF new_keywords # <<>>
                 THEN <<"+" \o ToString(Len(new_keywords)) \o " keywords">> ELSE <<>>)
                \o (IF DOMAIN repetitions_fixed # {}
                    THEN <<"Fixed " \o ToString(SumValues(repetitions_fixed)) \o " reps">>
                    ELSE <<>>)
                \o (IF has_metrics_after /\ ~has_metrics_before
                    THEN <<"Added metrics">> ELSE <<>>)
                \o (IF new_verb # "" /\ current_verb # ""
                       /\ lower(new_verb) # lower(current_verb)
                    THEN <<"Varied verb">>
                    ELSE IF optimized # content THEN <<"Enhanced">> ELSE <<>>),
                repetitions_fixed, "1.0", has_metrics_after),
            used2, prompt, <<optimized>>)

\* lines 180-184: count the verbs of the optimized text that the content had not
Recounted(content, optimized, keyword_profile, prompt, has_metrics_before, content_verbs, used1, current_keywords, repetition_analysis, new_verbs) ==
    Rewritten(content, optimized, prompt, has_metrics_before,
              _has_metrics(optimized),
              _extract_leading_verb(content),
              _extract_leading_verb(optimized),
              CountVerbs(used1, new_verbs,
                         {verb_lower[content_verbs[k]] : k \in DOMAIN content_verbs}),
              SelectSeq(_extract_keywords(optimized, keyword_profile),
                        LAMBDA k : k \notin Range(current_keywords)),
              _count_repetitions_fixed(repetition_analysis, optimized))

\* lines 168-178: the cleaned response is validated against the content
Validated(content, optimized, keyword_profile, prompt, has_metrics_before, content_verbs, used1, current_keywords, repetition_analysis) ==
    IF ~_validate_simple(content, optimized)
    THEN Outcome(OptimizationResult(content, content, <<>>,
                     <<"Validation failed">>, NoDict, "0.5", has_metrics_before),
                 used1, prompt, <<optimized>>)
    ELSE Recounted(content, optimized, keyword_profile, prompt, has_metrics_before,
                   content_verbs, used1, current_keywords, repetition_analysis,
                   _extract_all_verbs(optimized))

\* lines 151-166 and 218-227: the collaborator is called with the prompt
Generated(content, section_type, keyword_profile, ai, prompt, has_metrics_before, content_verbs, used1, current_keywords, repetition_analysis) ==
    IF ai.kind = "raise"
    THEN Outcome(OptimizationResult(content, content, <<>>,
                     <<"Error: " \o Take(ai.message, 40)>>, NoDict, "1.0", FALSE),
                 used1, prompt, NoCandidate)
    ELSE IF NoResponse(ai)
    THEN Outcome(OptimizationResult(content, content, <<>>,
                     <<"No AI response">>, NoDict, "1.0", has_metrics_before),
                 used1, prompt, NoCandidate)
    ELSE Validated(content, _clean_output(ai.text, section_type), keyword_profile,
                   prompt, has_metrics_before, content_verbs, used1,
                   current_keywords, repetition_analysis)

\* the flag of line 140 without the coverage
needs_metrics_at_any_coverage(self, has_metrics_before) == ~has_metrics_before

\* lines 138-140: metrics_coverage is bullets_with_metrics / bullets_total * 100,
\* or 0 when bullets_total is 0; compared with 85 as a fraction
needs_metrics(self, has_metrics_before) ==
    /\ ~has_metrics_before
    /\ IF self.bullets_total > 0
       THEN self.bullets_with_metrics * 100 < MetricsTarget * self.bullets_total
       ELSE 0 < MetricsTarget

\* lines 123-149: the analysis of the content and the prompt built from it
Analyzed(self, content, section_type, keyword_profile, context, ai, has_metrics_before, content_verbs, used1, repetition_analysis) ==
    Generated(content, section_type, keyword_profile, ai,
              _build_enhanced_prompt(content, section_type,
                  _find_missing_keywords(content, keyword_profile),
                  IF "technologies" \in DOMAIN context
                  THEN Take(context["technologies"], 5) ELSE <<>>,
                  repetition_analysis, used1,
                  needs_metrics(self, has_metrics_before)),
              has_metrics_before, content_verbs, used1,
              _extract_keywords(content, keyword_profile), repetition_analysis)

\* lines 114-121: the verbs of the content are counted
Counted(self, content, section_type, keyword_profile, context, ai, content_verbs) ==
    Analyzed(self, content, section_type, keyword_profile, context, ai,
             _has_metrics(content), content_verbs,
             CountVerbs(self.used_verbs, content_verbs, {}),
             _analyze_repetitions(content))

optimize_content(self, content, section_type, keyword_profile, context, ai) ==
    IF TooShort(content)
    THEN Outcome(OptimizationResult(content, content, <<>>,
                     <<"Skipped: Too short">>, NoDict, "1.0", FALSE),
                 self.used_verbs, NoPrompt, NoCandidate)
    ELSE Counted(self, content, section_type, keyword_profile, context, ai,
                 _extract_all_verbs(content))

(***************************************************************************)
(* Inputs.  The texts handed to optimize_content directly, the documents    *)
(* handed to optimize_resume_data and what the collaborator answers.        *)
(***************************************************************************)
\* bounds of the model
MaxCalls == 1          \* direct optimize_content calls between two runs
MaxExperience == 4     \* work-experience entries of a document

keyword_profile ==
    [primary_keywords |-> <<"SQL", "Kafka", "AI">>,
     secondary_keywords |-> <<"ETL">>]

SectionTypes == {"summary", "experience", "projects"}

Contents ==
    { "",
      "Built it",
      "  Built it    ",
      "Built data",
      "Built data pipelines for team",
      "Led 1 2 3 4 5 teams",
      "Reduced costs by 5% for teams",
      "Built data data data flows",
      "Built and scaled data flows" }

TextResponses ==
    { "",
      "   ",
      "Led",
      "Made",
      "Built data flows for all teams",
      "Built data flows for all teams.",
      "Led 1 2 3 4 teams",
      "Reduced costs by 50% for teams",
      "Reduced costs by 6% for teams",
      "Engineered SQL data pipelines for 30 users",
      "1. **Built** data flows. Led teams. Scaled." }

Text(t) == [kind |-> "text", text |-> t]
ReturnsNone == [kind |-> "none"]
Raises == [kind |-> "raise", message |-> "connection refused"]

\* what the collaborator may do on a direct call, and on a call within a run
Responses == {Text(t) : t \in TextResponses} \cup {ReturnsNone, Raises}
RunResponses ==
    { ReturnsNone, Raises,
      Text("Engineered data pipelines serving 30 users"),
      Text("Led migration of 5 large tables to cloud") }

\* the texts a client rewrites directly on an instance that also does runs
RunContents ==
    {"Built it", "  Built it    ", "Built a pipeline", "Built data pipelines for team"}

DirectContext(section_type) ==
    IF section_type = "experience"
    THEN [company |-> "Acme", position |-> "Engineer",
          technologies |-> <<"Kafka", "NLP">>]
    ELSE [role |-> "Engineer"]

NoSummary == [absent |-> TRUE]
Summaries ==
    { NoSummary,
      [title |-> "Data Engineer", years_of_experience |-> 5,
       specializations |-> <<"SQL", "ETL">>,
       key_achievement |-> "Built data pipelines"] }

AcmeEntry ==
    [company |-> "Acme", position |-> "Engineer",
     achievements |-> <<"Built and scaled data pipelines", "Fixed bugs quickly">>,
     technologies |-> <<"Kafka">>]
InitechEntry ==
    [company |-> "Initech", position |-> "Lead",
     achievements |-> <<"Led migration of 5 tables to cloud">>,
     technologies |-> <<"SQL", "NLP">>]
\* a career of n entries, most recent first, the two employers alternating
Career(n, first) ==
    [k \in 1..n |-> IF (k + first) % 2 = 1 THEN AcmeEntry ELSE InitechEntry]

FeaturedProject ==
    [name |-> "Search", description |-> "Built search engine for docs",
     technologies |-> <<"Python">>, is_featured |-> TRUE]
PlainProject ==
    [name |-> "Demo", description |-> "Created demo app for fun",
     technologies |-> <<"Python">>, is_featured |-> FALSE]
ProjectLists == { <<>>, <<PlainProject, FeaturedProject>> }

Documents ==
    { [summary |-> s, experience |-> Career(n, first), projects |-> p] :
        s \in Summaries, n \in 0..MaxExperience, first \in {0, 1},
        p \in ProjectLists }


(***************************************************************************)
(* AIKeywordGenerator (keyword_generator.py).  A value that the generator   *)
(* gets from json.loads or builds itself is a Python object: it is modelled *)
(* with its type, so that len() and slicing can fail as they do in Python.  *)
(***************************************************************************)
JStr(t) == [type |-> "str", text |-> t]
JNum(t) == [type |-> "num", text |-> t]
JBool(t) == [type |-> "bool", text |-> t]
JNull == [type |-> "null"]
JList(items) == [type |-> "list", items |-> items]
JDict(entries) == [type |-> "dict", entries |-> entries]
NoEntries == [k \in {} |-> JNull]

\* a list of str
StrList(seq) == JList([k \in DOMAIN seq |-> JStr(seq[k])])

\* dict.get(key, default)
Get(d, key, default) ==
    IF key \in DOMAIN d.entries THEN d.entries[key] ELSE default

\* json.loads on the JSON texts made of objects, arrays, strings without
\* escapes, integers, true, false, null and white space
Fail == [ok |-> FALSE]
Parsed(value, next) == [ok |-> TRUE, value |-> value, next |-> next]

RECURSIVE SkipWs(_, _)
SkipWs(s, i) ==
    IF i <= Len(s) /\ Ch(s, i) \in {" ", "\t", "\n", "\r"}
    THEN SkipWs(s, i + 1) ELSE i

\* index of the quote that closes a string whose first character is at i;
\* 0 when there is none
RECURSIVE StringEnd(_, _)
StringEnd(s, i) ==
    IF i > Len(s) \/ Ch(s, i) \in {"\\", "\n"} THEN 0
    ELSE IF Ch(s, i) = "\"" THEN i
    ELSE StringEnd(s, i + 1)

StringClosed(s, i, e) ==
    IF e = 0 THEN Fail ELSE Parsed(JStr(SubSeq(s, i + 1, e - 1)), e + 1)
ParseString(s, i) == StringClosed(s, i, StringEnd(s, i + 1))

\* -?(0|[1-9][0-9]*) with its first digit at d
DigitsFrom(s, i, d) ==
    IF d > Len(s) \/ Ch(s, d) \notin Digits THEN Fail
    ELSE IF Ch(s, d) = "0" THEN Parsed(JNum(SubSeq(s, i, d)), d + 1)
    ELSE Parsed(JNum(SubSeq(s, i, RunEnd(Digits, s, d))), RunEnd(Digits, s, d) + 1)
ParseNumber(s, i) ==
    IF Ch(s, i) = "-" THEN DigitsFrom(s, i, i + 1) ELSE DigitsFrom(s, i, i)

RECURSIVE ParseValue(_, _)
RECURSIVE ParseElems(_, _, _)
RECURSIVE ParseMembers(_, _, _)

\* after an element of an array: "," and the next element, or "]"
ElemSep(s, acc, j) ==
    IF j > Len(s) THEN Fail
    ELSE IF Ch(s, j) = "," THEN ParseElems(s, j + 1, acc)
    ELSE IF Ch(s, j) = "]" THEN Parsed(JList(acc), j + 1)
    ELSE Fail
ElemParsed(s, acc, r) ==
    IF ~r.ok THEN Fail ELSE ElemSep(s, Append(acc, r.value), SkipWs(s, r.next))
ParseElems(s, i, acc) == ElemParsed(s, acc, ParseValue(s, i))
ParseArray(s, i) ==
    IF i <= Len(s) /\ Ch(s, i) = "]" THEN Parsed(JList(<<>>), i + 1)
    ELSE ParseElems(s, i, <<>>)

\* after a member of an object: "," and the next member, or "}"
MemberSep(s, acc, j) ==
    IF j > Len(s) THEN Fail
    ELSE IF Ch(s, j) = "," THEN ParseMembers(s, SkipWs(s, j + 1), acc)
    ELSE IF Ch(s, j) = "}" THEN Parsed(JDict(acc), j + 1)
    ELSE Fail
MemberParsed(s, acc, key, r) ==
    IF ~r.ok THEN Fail
    ELSE MemberSep(s, (key.value.text :> r.value) @@ acc, SkipWs(s, r.next))
MemberColon(s, acc, key, j) ==
    IF j > Len(s) \/ Ch(s, j) # ":" THEN Fail
    ELSE MemberParsed(s, acc, key, ParseValue(s, j + 1))
MemberKey(s, acc, key) ==
    IF ~key.ok THEN Fail ELSE MemberColon(s, acc, key, SkipWs(s, key.next))
ParseMembers(s, i, acc) ==
    IF i > Len(s) \/ Ch(s, i) # "\"" THEN Fail
    ELSE MemberKey(s, acc, ParseString(s, i))
ParseObject(s, i) ==
    IF i <= Len(s) /\ Ch(s, i) = "}" THEN Parsed(JDict(NoEntries), i + 1)
    ELSE ParseMembers(s, i, NoEntries)

ValueAt(s, i) ==
    IF i > Len(s) THEN Fail
    ELSE IF Ch(s, i) = "{" THEN ParseObject(s, SkipWs(s, i + 1))
    ELSE IF Ch(s, i) = "[" THEN ParseArray(s, SkipWs(s, i + 1))
    ELSE IF Ch(s, i) = "\"" THEN ParseString(s, i)
    ELSE IF StartsAt(s, i, "null") THEN Parsed(JNull, i + 4)
    ELSE IF StartsAt(s, i, "true") THEN Parsed(JBool("true"), i + 4)
    ELSE IF StartsAt(s, i, "false") THEN Parsed(JBool("false"), i + 5)
    ELSE IF Ch(s, i) \in Digits \cup {"-"} THEN ParseNumber(s, i)
    ELSE Fail
ParseValue(s, i) == ValueAt(s, SkipWs(s, i))

\* the whole text is one value; anything else is a JSONDecodeError
WholeText(s, r) ==
    IF r.ok /\ SkipWs(s, r.next) > Len(s) THEN [ok |-> TRUE, value |-> r.value]
    ELSE Fail
json_loads(s) == WholeText(s, ParseValue(s, 1))

\* re.search(r'\{.*\}', response, re.DOTALL): from the first "{" to the last
\* "}" after it; <<>> when there is no match, <<the matched text>> otherwise
FirstIndex(s, c) ==
    IF \E i \in 1..Len(s) : Ch(s, i) = c
    THEN CHOOSE i \in 1..Len(s) :
            Ch(s, i) = c /\ \A j \in 1..(i - 1) : Ch(s, j) # c
    ELSE 0
LastIndex(s, c) ==
    IF \E i \in 1..Len(s) : Ch(s, i) = c
    THEN CHOOSE i \in 1..Len(s) :
            Ch(s, i) = c /\ \A j \in (i + 1)..Len(s) : Ch(s, j) # c
    ELSE 0
BraceSpan(s, a, b) == IF a > 0 /\ b > a THEN <<SubSeq(s, a, b)>> ELSE <<>>
json_match(response) ==
    BraceSpan(response, FirstIndex(response, "{"), LastIndex(response, "}"))

INDUSTRY_KEYWORDS ==
    [data_engineer |->
        [hot_2025 |-> <<"AI", "ML", "LLM", "GenAI", "RAG", "Vector Database",
                        "Real-time", "Streaming", "Event-driven", "Cloud-native">>,
         core_tech |-> <<"Spark", "Kafka", "Airflow", "dbt", "Redshift", "Snowflake">>,
         cloud |-> <<"AWS", "Azure", "GCP", "Kubernetes", "Docker", "Terraform">>],
     software_engineer |->
        [hot_2025 |-> <<"AI", "ML", "Microservices", "Cloud-native", "DevOps", "CI/CD">>,
         core_tech |-> <<"Python", "Java", "React", "Node.js", "GraphQL", "REST APIs">>,
         cloud |-> <<"AWS", "Kubernetes", "Docker", "Serverless">>],
     machine_learning_engineer |->
        [hot_2025 |-> <<"LLM", "GenAI", "Transformers", "RAG", "Fine-tuning", "MLOps">>,
         core_tech |-> <<"PyTorch", "TensorFlow", "Scikit-learn", "MLflow", "Kubeflow">>,
         cloud |-> <<"AWS SageMaker", "Azure ML", "GCP Vertex AI">>]]

\* str.replace(' ', '_')
RECURSIVE SpacesToUnderscores(_, _)
SpacesToUnderscores(s, i) ==
    IF i > Len(s) THEN ""
    ELSE (IF Ch(s, i) = " " THEN "_" ELSE Ch(s, i)) \o SpacesToUnderscores(s, i + 1)

RoleKey(role_lower) ==
    IF Contains(role_lower, "data") /\ Contains(role_lower, "engineer")
    THEN "data_engineer"
    ELSE IF Contains(role_lower, "machine") \/ Contains(role_lower, "ml")
    THEN "machine_learning_engineer"
    ELSE IF \/ Contains(role_lower, "software")
            \/ Contains(role_lower, "backend")
            \/ Contains(role_lower, "fullstack")
    THEN "software_engineer"
    ELSE "data_engineer"
_normalize_role(job_role) == RoleKey(SpacesToUnderscores(lower(job_role), 1))

_get_base_keywords(role_key) ==
    IF role_key \in DOMAIN INDUSTRY_KEYWORDS
    THEN INDUSTRY_KEYWORDS[role_key]
    ELSE INDUSTRY_KEYWORDS["data_engineer"]

tech_terms ==
    << "Python", "Java", "SQL", "AWS", "Azure", "GCP", "Kubernetes", "Docker",
       "Kafka", "Spark", "Airflow", "dbt", "Redshift", "Snowflake", "BigQuery",
       "Machine Learning", "AI", "ML", "LLM", "GenAI", "RAG", "Vector Database",
       "Real-time", "Streaming", "ETL", "Data Pipeline", "Data Warehouse" >>

\* list(set(keywords)): the order of the list is not determined, it is kept
\* as the set
JdTermsIn(jd_lower) ==
    {tech_terms[k] : k \in {k \in DOMAIN tech_terms :
                              Contains(jd_lower, lower(tech_terms[k]))}}
_extract_jd_keywords(job_description) == JdTermsIn(lower(job_description))

\* str.split(): the maximal runs of characters that are not white space
RECURSIVE WordEnd(_, _)
WordEnd(s, i) ==
    IF i <= Len(s) /\ Ch(s, i) \notin SpaceChars THEN WordEnd(s, i + 1) ELSE i - 1
RECURSIVE SplitFrom(_, _)
SplitFrom(s, i) ==
    IF i > Len(s) THEN <<>>
    ELSE IF Ch(s, i) \in SpaceChars THEN SplitFrom(s, i + 1)
    ELSE <<SubSeq(s, i, WordEnd(s, i))>> \o SplitFrom(s, WordEnd(s, i) + 1)

\* the user's experience: None, or a dict with some of the three keys
NoExperience == [given |-> FALSE]
Experience(map) == [given |-> TRUE, map |-> map]
Truthy(experience) == experience.given /\ DOMAIN experience.map # {}

TechWords(words) ==
    {words[k] : k \in {k \in DOMAIN words :
                         Ch(words[k], 1) \in UpperSet /\ Len(words[k]) > 3}}
_extract_experience_keywords(experience) ==
    IF ~Truthy(experience) THEN {}
    ELSE (IF "skills" \in DOMAIN experience.map
          THEN Range(experience.map["skills"]) ELSE {})
         \cup (IF "technologies" \in DOMAIN experience.map
               THEN Range(experience.map["technologies"]) ELSE {})
         \cup (IF "achievements" \in DOMAIN experience.map
               THEN UNION {TechWords(SplitFrom(experience.map["achievements"][k], 1)) :
                             k \in DOMAIN experience.map["achievements"]}
               ELSE {})

_fallback_keywords(base_keywords) ==
    JDict([primary_keywords |-> StrList(Take(base_keywords.hot_2025, 8)),
           secondary_keywords |-> StrList(Take(base_keywords.core_tech, 10)),
           technical_skills |-> StrList(Take(base_keywords.cloud, 8)),
           power_verbs |->
              JDict([Leadership |-> StrList(<<"Led", "Spearheaded", "Drove">>),
                     Technical |-> StrList(<<"Architected", "Engineered", "Built",
                                             "Designed">>),
                     Optimization |-> StrList(<<"Optimized", "Enhanced",
                                                "Streamlined">>)]),
           industry_buzzwords |-> StrList(<<"AI", "ML", "Cloud-native", "Real-time">>),
           synonyms |->
              JDict(("real-time" :> StrList(<<"streaming", "low-latency", "instant">>))
                    @@ ("cloud" :> StrList(<<"cloud-native", "serverless",
                                             "distributed">>)))])

\* lines 222-240: what the collaborator answered becomes the dict, or the
\* fallback when it raised, answered None, nothing in braces, or no JSON
Loaded(base_keywords, loaded) ==
    IF loaded.ok THEN loaded.value ELSE _fallback_keywords(base_keywords)
Matched(base_keywords, match) ==
    IF match = <<>> THEN _fallback_keywords(base_keywords)
    ELSE Loaded(base_keywords, json_loads(match[1]))
_ai_enrich_keywords(job_role, base_keywords, jd_keywords, experience_keywords, target_company, ai) ==
    IF ai.kind # "text" THEN _fallback_keywords(base_keywords)
    ELSE Matched(base_keywords, json_match(ai.text))

KeywordProfile(role, primary_keywords, secondary_keywords, technical_skills, power_verbs, industry_buzzwords, synonyms) ==
    [role |-> role, primary_keywords |-> primary_keywords,
     secondary_keywords |-> secondary_keywords,
     technical_skills |-> technical_skills, power_verbs |-> power_verbs,
     industry_buzzwords |-> industry_buzzwords, synonyms |-> synonyms]

_build_keyword_profile(job_role, enriched_keywords, experience_keywords) ==
    KeywordProfile(job_role,
                   Get(enriched_keywords, "primary_keywords", JList(<<>>)),
                   Get(enriched_keywords, "secondary_keywords", JList(<<>>)),
                   Get(enriched_keywords, "technical_skills", JList(<<>>)),
                   Get(enriched_keywords, "power_verbs", JDict(NoEntries)),
                   Get(enriched_keywords, "industry_buzzwords", JList(<<>>)),
                   Get(enriched_keywords, "synonyms", JDict(NoEntries)))

\* len(v) raises TypeError on None, numbers and booleans
HasLen(v) == v.type \in {"list", "str", "dict"}
\* ', '.join(v[:5]) raises TypeError on a dict and on a list with an item
\* that is not a str
Joinable(v) ==
    \/ v.type = "str"
    \/ v.type = "list" /\ \A k \in DOMAIN Take(v.items, 5) : v.items[k].type = "str"

\* _print_keyword_summary, lines 281-287: whether it gets to its end
_print_keyword_summary(profile) ==
    /\ HasLen(profile.primary_keywords)
    /\ HasLen(profile.secondary_keywords)
    /\ HasLen(profile.technical_skills)
    /\ HasLen(profile.power_verbs)
    /\ HasLen(profile.synonyms)
    /\ Joinable(profile.primary_keywords)

\* generate_keywords: the profile it returns, or the error it lets through
Summarized(profile) ==
    IF _print_keyword_summary(profile)
    THEN [kind |-> "returned", profile |-> profile]
    ELSE [kind |-> "raised", error |-> "TypeError"]
Enriched(job_role, base_keywords, jd_keywords, experience_keywords, target_company, ai) ==
    Summarized(_build_keyword_profile(job_role,
                   _ai_enrich_keywords(job_role, base_keywords, jd_keywords,
                       experience_keywords, target_company, ai),
                   experience_keywords))
generate_keywords(job_role, job_description, user_experience, target_company, ai) ==
    Enriched(job_role,
             _get_base_keywords(_normalize_role(job_role)),
             IF job_description # "" THEN _extract_jd_keywords(job_description) ELSE {},
             IF Truthy(user_experience)
             THEN _extract_experience_keywords(user_experience) ELSE {},
             target_company, ai)

\* what generate_keywords is called with
JobRoles == {"Data Engineer", "ML Engineer", "Backend Developer", "Designer"}
JobDescriptions == {"", "Kafka and SQL pipelines"}
UserExperiences ==
    {NoExperience,
     Experience([k \in {} |-> <<>>]),
     Experience([skills |-> <<"Python">>, technologies |-> <<"Kafka">>,
                 achievements |-> <<"Built Spark jobs on AWS">>])}
TargetCompany == "FAANG"
\* what the collaborator does with the keyword prompt
KeywordResponses ==
    {Raises, ReturnsNone,
     Text(""),
     Text("No keywords today"),
     Text("{not json}"),
     Text("{\"a\": 1} and {\"b\": 2}"),
     Text("{}"),
     Text("{\"primary_keywords\": null}"),
     Text("{\"primary_keywords\": [1, 2]}"),
     Text("{\"primary_keywords\": [\"Spark\"]}"),
     Text("Here: {\"primary_keywords\": [\"Spark\", \"Kafka\"], \"secondary_keywords\": [\"SQL\"], \"technical_skills\": [\"AWS\"]}")}

(***************************************************************************)
(* Comprehensive2025ResumeAnalyzer (resume_metrics.py).  Scores are held    *)
(* in ten-thousandths of a point, so that every weight, half weight and     *)
(* 0.7 weight of the source is an integer; a reported score is a number of  *)
(* tenths.                                                                  *)
(***************************************************************************)
Point == 10000
Tenth == 1000

\* round(x, 1) of a score: the nearest tenth, an exact tie to the even tenth.
\* The floats of the source differ from the exact sums by less than a
\* ten-thousandth; where an exact sum is a tie the float can lie on either
\* side of it.
Round1(x) ==
    IF x % Tenth > Tenth \div 2 THEN x \div Tenth + 1
    ELSE IF x % Tenth < Tenth \div 2 THEN x \div Tenth
    ELSE IF (x \div Tenth) % 2 = 0 THEN x \div Tenth
    ELSE x \div Tenth + 1

Max(a, b) == IF a > b THEN a ELSE b

\* the first index from i on where sub occurs in s; 0 when there is none
Find(s, sub, i) ==
    IF \E j \in i..Len(s) : StartsAt(s, j, sub)
    THEN CHOOSE j \in i..Len(s) :
            StartsAt(s, j, sub) /\ \A k \in i..(j - 1) : ~StartsAt(s, k, sub)
    ELSE 0

\* str.count(sub): the occurrences found from left to right, none overlapping
RECURSIVE CountFrom(_, _, _)
CountFrom(s, sub, i) ==
    IF Find(s, sub, i) = 0 THEN 0
    ELSE 1 + CountFrom(s, sub, Find(s, sub, i) + Len(sub))
count(s, sub) == CountFrom(s, sub, 1)

\* str.split(sep)
RECURSIVE SplitFromOn(_, _, _)
SplitFromOn(s, sep, start) ==
    IF Find(s, sep, start) = 0 THEN <<SubSeq(s, start, Len(s))>>
    ELSE <<SubSeq(s, start, Find(s, sep, start) - 1)>>
         \o SplitFromOn(s, sep, Find(s, sep, start) + Len(sep))
split(s, sep) == SplitFromOn(s, sep, 1)

\* \b on both sides of an occurrence of word at i
WordAt(s, i, word) ==
    /\ StartsAt(s, i, word)
    /\ i = 1 \/ Ch(s, i - 1) \notin WordChars
    /\ i + Len(word) > Len(s) \/ Ch(s, i + Len(word)) \notin WordChars
\* len(re.findall(r'\b' + word + r'\b', s))
WordCount(s, word) == Cardinality({i \in 1..Len(s) : WordAt(s, i, word)})

CRITICAL_KEYWORDS_2025 ==
    << [keywords |-> <<"AI", "ML", "LLM", "GenAI", "RAG", "Vector Database",
                       "Langchain">>,
        weight |-> 30000, target |-> <<2, 3>>, category |-> "AI/ML"],
       [keywords |-> <<"Real-time", "Streaming", "Event-driven", "CDC", "Kafka",
                       "Kinesis">>,
        weight |-> 25000, target |-> <<2, 4>>, category |-> "Real-Time"],
       [keywords |-> <<"AWS", "Cloud-native", "Serverless", "Docker", "Kubernetes",
                       "dbt", "Airflow", "Spark">>,
        weight |-> 20000, target |-> <<2, 3>>, category |-> "Cloud/Modern Stack"],
       [keywords |-> <<"Python", "SQL", "ETL", "Data Pipeline", "Data Warehouse",
                       "Data Lake", "PostgreSQL">>,
        weight |-> 15000, target |-> <<1, 3>>, category |-> "Core Skills"] >>

POWER_VERBS ==
    << [category |-> "Leadership",
        verbs |-> <<"Spearheaded", "Directed", "Led", "Drove", "Championed",
                    "Orchestrated">>,
        required |-> 2, weight |-> 20000],
       [category |-> "Technical",
        verbs |-> <<"Architected", "Engineered", "Built", "Designed",
                    "Implemented", "Developed">>,
        required |-> 4, weight |-> 25000],
       [category |-> "Optimization",
        verbs |-> <<"Optimized", "Enhanced", "Streamlined", "Improved",
                    "Accelerated", "Reduced">>,
        required |-> 2, weight |-> 20000],
       [category |-> "Scale",
        verbs |-> <<"Scaled", "Expanded", "Migrated", "Transformed", "Modernized">>,
        required |-> 1, weight |-> 15000],
       [category |-> "Delivery",
        verbs |-> <<"Delivered", "Shipped", "Launched", "Deployed", "Released">>,
        required |-> 1, weight |-> 15000] >>

\* the patterns are literal texts once their escapes are read
ATS_KILLERS ==
    << <<"\\includegraphics", "Images/Graphics">>,
       <<"\\begin{figure}", "Figure environments">>,
       <<"\\begin{multicols}", "Multi-column layout">>,
       <<"\\twocolumn", "Two-column layout">>,
       <<"\\fontspec", "Custom fonts">>,
       <<"\\begin{wrapfigure}", "Text wrapping around images">> >>

\* a metric pattern: prefix, \d+, then sep and \d+ when sep is not empty,
\* then one of the suffixes, then opt when it is there
Metric(prefix, sep, suffixes, opt) ==
    [prefix |-> prefix, sep |-> sep, suffixes |-> suffixes, opt |-> opt]
metrics_patterns ==
    << Metric("", "", {"\\%"}, ""), Metric("", "", {"%"}, ""),
       Metric("", "", {"+"}, ""), Metric("", "", {"K", "M", "B"}, "+"),
       Metric("", "", {"K", "M", "B"}, ""),
       Metric("", ".", {"\\%"}, ""), Metric("", ".", {"%"}, ""),
       Metric("", ",", {""}, "+"), Metric("", "", {"TB"}, ""),
       Metric("", "", {"GB"}, ""), Metric("", "", {"x"}, ""),
       Metric("", "", {" hour"}, "s"), Metric("", "", {" minute"}, "s"),
       Metric("", "", {" second"}, "s"), Metric("", "", {" user"}, "s"),
       Metric("", "", {" table"}, "s"), Metric("", "", {" event"}, "s"),
       Metric("", "", {" report"}, "s"),
       Metric("from ", "", {"\\%", "%"}, ""), Metric("to ", "", {"\\%", "%"}, "") >>

\* where a match of p that starts at i ends; 0 when there is none
OptEnd(p, s, c) ==
    IF p.opt # "" /\ StartsAt(s, c + 1, p.opt) THEN c + Len(p.opt) ELSE c
SuffixEnd(p, s, b) ==
    IF \E lit \in p.suffixes : StartsAt(s, b + 1, lit)
    THEN OptEnd(p, s, b + Len(CHOOSE lit \in p.suffixes : StartsAt(s, b + 1, lit)))
    ELSE 0
SecondRun(p, s, r2, first) ==
    IF r2 < first THEN 0 ELSE SuffixEnd(p, s, r2)
FirstRun(p, s, a, r1) ==
    IF r1 < a THEN 0
    ELSE IF p.sep = "" THEN SuffixEnd(p, s, r1)
    ELSE IF StartsAt(s, r1 + 1, p.sep)
    THEN SecondRun(p, s, RunEnd(Digits, s, r1 + 2), r1 + 2)
    ELSE 0
MatchEnd(p, s, i) ==
    IF StartsAt(s, i, p.prefix)
    THEN FirstRun(p, s, i + Len(p.prefix), RunEnd(Digits, s, i + Len(p.prefix)))
    ELSE 0

\* re.search(p, s)
Search(p, s) == \E i \in 1..Len(s) : MatchEnd(p, s, i) > 0
\* where the first match of p from i on starts; 0 when there is none
MatchFrom(p, s, i) ==
    IF \E j \in i..Len(s) : MatchEnd(p, s, j) > 0
    THEN CHOOSE j \in i..Len(s) :
            MatchEnd(p, s, j) > 0 /\ \A k \in i..(j - 1) : MatchEnd(p, s, k) = 0
    ELSE 0
\* set(re.findall(p, s))
RECURSIVE FindallFrom(_, _, _)
FindallFrom(p, s, i) ==
    IF MatchFrom(p, s, i) = 0 THEN {}
    ELSE {SubSeq(s, MatchFrom(p, s, i), MatchEnd(p, s, MatchFrom(p, s, i)))}
         \cup FindallFrom(p, s, MatchEnd(p, s, MatchFrom(p, s, i)) + 1)

\* the text of a bullet: item up to the brace that closes \resumeItem{
RECURSIVE BulletEnd(_, _, _)
BulletEnd(item, i, brace_count) ==
    IF i > Len(item) THEN Len(item)
    ELSE IF Ch(item, i) = "{" THEN BulletEnd(item, i + 1, brace_count + 1)
    ELSE IF Ch(item, i) = "}"
    THEN IF brace_count = 1 THEN i - 1 ELSE BulletEnd(item, i + 1, brace_count - 1)
    ELSE BulletEnd(item, i + 1, brace_count)
bullet_text(item) == SubSeq(item, 1, BulletEnd(item, 1, 1))

section_patterns ==
    << <<"summary", <<"\\section{summary}", "\\section{professional summary}",
                      "summary", "professional summary">> >>,
       <<"skills", <<"\\section{technical skills}", "\\section{skills}",
                     "technical skills", "skills">> >>,
       <<"experience", <<"\\section{experience}",
                         "\\section{professional experience}",
                         "experience", "professional experience">> >>,
       <<"education", <<"\\section{education}", "education">> >>,
       <<"projects", <<"\\section{projects}", "\\section{key projects}",
                       "projects", "key projects">> >>,
       <<"certifications", <<"\\section{certifications}", "certifications">> >> >>

\* what the analysis reads in a text -------------------------------------

\* _identify_sections, lines 415-423: the sections with a pattern in the text
SectionsIn(content_lower) ==
    {section_patterns[k][1] : k \in {k \in DOMAIN section_patterns :
        \E j \in DOMAIN section_patterns[k][2] :
            Contains(content_lower, section_patterns[k][2][j])}}

\* lines 175-180: "Category:Verb" |-> matches, for the verbs that match
VerbKey(config, j) == config.category \o ":" \o config.verbs[j]
VerbKeysOf(config) == {VerbKey(config, j) : j \in DOMAIN config.verbs}
AllVerbKeys == UNION {VerbKeysOf(POWER_VERBS[k]) : k \in DOMAIN POWER_VERBS}
VerbOf(key) ==
    CHOOSE verb \in UNION {Range(POWER_VERBS[k].verbs) : k \in DOMAIN POWER_VERBS} :
        \E k \in DOMAIN POWER_VERBS :
            key = POWER_VERBS[k].category \o ":" \o verb
VerbMatches(content_lower) ==
    [key \in {key \in AllVerbKeys : WordCount(content_lower, lower(VerbOf(key))) > 0}
        |-> WordCount(content_lower, lower(VerbOf(key)))]

\* lines 197-201
AllMetrics(content) ==
    UNION {FindallFrom(metrics_patterns[k], content, 1) : k \in DOMAIN metrics_patterns}

\* lines 206-222: the bullets whose text has a metric
Bullets(content) == Tail(split(content, "\\resumeItem{"))
has_metric(text) == \E k \in DOMAIN metrics_patterns : Search(metrics_patterns[k], text)
BulletsWithMetrics(items) ==
    Cardinality({k \in DOMAIN items : has_metric(bullet_text(items[k]))})

\* _check_professional_language, lines 381 and 384-385
Pronouns(content_lower) ==
    WordCount(content_lower, "i") + WordCount(content_lower, "me")
    + WordCount(content_lower, "my") + WordCount(content_lower, "we")
    + WordCount(content_lower, "our")
passive_indicators == <<"was built", "were created", "is managed">>
PassiveCount(content_lower) ==
    SumValues([k \in DOMAIN passive_indicators |->
                  count(content_lower, passive_indicators[k])])

\* _check_fluff_words
fluff_words ==
    <<"synergy", "leverage", "paradigm", "utilize", "facilitate", "innovative",
      "cutting-edge", "best-in-class", "world-class">>
FluffFound(content_lower) ==
    Cardinality({k \in DOMAIN fluff_words : Contains(content_lower, fluff_words[k])})

\* _analyze_format, lines 256-259 and 274
KillersIn(latex_content) ==
    SelectSeq(ATS_KILLERS, LAMBDA killer : Contains(latex_content, killer[1]))

\* _analyze_keywords, line 290
AllKeywords ==
    UNION {Range(CRITICAL_KEYWORDS_2025[k].keywords) : k \in DOMAIN CRITICAL_KEYWORDS_2025}
KeywordCounts(content_lower) ==
    [keyword \in AllKeywords |-> count(content_lower, lower(keyword))]

\* _analyze_technical_depth
specific_tech ==
    <<"Apache Kafka", "AWS Lambda", "Redshift", "Kinesis", "dbt", "PySpark",
      "Airflow", "PostgreSQL", "Docker", "Kubernetes", "Terraform",
      "CloudFormation", "Pinecone", "Weaviate">>
arch_keywords ==
    <<"architecture", "designed", "architected", "scalable", "distributed",
      "microservices", "event-driven">>
\* \d+M\+|\d+TB|\d+K\+
scale_patterns ==
    <<Metric("", "", {"M+"}, ""), Metric("", "", {"TB"}, ""), Metric("", "", {"K+"}, "")>>

\* everything above for one text
Read(content, content_lower) ==
    [sections |-> SectionsIn(content_lower),
     verbs |-> VerbMatches(content_lower),
     resume_items |-> count(content, "\\resumeItem{"),
     items |-> count(content, "\\item "),
     all_metrics |-> AllMetrics(content),
     bullets_with_metrics |-> BulletsWithMetrics(Bullets(content)),
     pronouns |-> Pronouns(content_lower),
     passive_count |-> PassiveCount(content_lower),
     fluff |-> FluffFound(content_lower),
     killers |-> KillersIn(content),
     table_count |-> count(content, "\\begin{tabular}"),
     keyword_counts |-> KeywordCounts(content_lower),
     tech_count |-> Cardinality({k \in DOMAIN specific_tech :
                                    Contains(content, specific_tech[k])}),
     arch_count |-> Cardinality({k \in DOMAIN arch_keywords :
                                    Contains(content_lower, lower(arch_keywords[k]))}),
     scale |-> \E k \in DOMAIN scale_patterns : Search(scale_patterns[k], content)]

\* the rendered documents handed to the analyzer
MaxAnalyses == 2       \* analyses made by one analyzer instance
PlainText ==
    "Worked on things"
HeadersText ==
    "Summary Skills Experience Education Projects"
SynonymsText ==
    "\\section{Objective} \\section{Core Competencies} Experience Education Projects"
BorderlineText ==
    "summary skills education \\resumeItem{Built 5TB}"
HostileText ==
    "\\includegraphics\\begin{figure}\\begin{multicols}\\twocolumn\\fontspec\\begin{wrapfigure}"
TablesText ==
    "\\fontspec \\begin{tabular} \\begin{tabular} \\begin{tabular}"
BulletedText ==
    "\\resumeItem{Built pipelines for 30 users} \\resumeItem{Developed {nested} tools}"
ItemsText ==
    "\\item Shipped tools \\item I was built by our team"
KeywordText ==
    "AI ML LLM and AI ML LLM on Kafka, Kafka, AWS, AWS, Python, SQL, ETL for 5TB"
FluffText ==
    "We leverage synergy to utilize innovative paradigm"
MeasuredItemsText ==
    "\\item Cut cost by 30% \\item Served 5 users"
BalancedText ==
    "\\section{Skills} a b c d e f g h j k l \\section{Experience} m n o p q r s t u"
LopsidedText ==
    "\\section{Skills} a b c d e f g h j \\section{Experience} k"
AnalysisTexts ==
    {"", PlainText, HeadersText, SynonymsText, BorderlineText, HostileText,
     TablesText, BulletedText, ItemsText, KeywordText, FluffText,
     MeasuredItemsText, BalancedText, LopsidedText}

\* what the analysis reads in each text of the model, held as a table
Scanned == [content \in AnalysisTexts |-> Read(content, lower(content))] @@ <<>>

\* the analyzer ------------------------------------------------------------

NoCounts == [k \in {} |-> 0]

\* Comprehensive2025ResumeAnalyzer.__init__
NewAnalyzer ==
    [keyword_frequency |-> NoCounts, metrics_count |-> 0,
     power_verb_usage |-> NoCounts, section_lengths |-> NoCounts,
     sections_found |-> {}, ats_issues |-> <<>>,
     bullets_analyzed |-> 0, bullets_with_metrics |-> 0]

Scored(self, score) == [self |-> self, score |-> score]

_identify_sections(self, content) ==
    [self EXCEPT !.sections_found = @ \cup Scanned[content].sections]

VerbsUsed(self, category) ==
    {key \in DOMAIN self.power_verb_usage : StartsAt(key, 1, category \o ":")}

\* one category of _calculate_power_verb_score
CategoryScore(config, n) ==
    IF n >= config.required THEN config.weight
    ELSE IF 2 * n >= config.required THEN (config.weight * 7) \div 10
    ELSE IF config.required > 0
    THEN (n * config.weight * 5) \div (config.required * 10)
    ELSE 0
_calculate_power_verb_score(self) ==
    SumValues([k \in DOMAIN POWER_VERBS |->
        CategoryScore(POWER_VERBS[k],
                      Cardinality(VerbsUsed(self, POWER_VERBS[k].category)))])

ExperienceWords(self) ==
    IF "experience" \in DOMAIN self.section_lengths
    THEN self.section_lengths["experience"] ELSE 0
\* exp_ratio = exp_words / total_words against 0.35, 0.40, 0.50, 0.55
BalanceOf(exp_words, total_words) ==
    IF 100 * exp_words >= 40 * total_words /\ 100 * exp_words <= 50 * total_words
    THEN 10 * Point
    ELSE IF \/ 100 * exp_words >= 35 * total_words /\ 100 * exp_words < 40 * total_words
            \/ 100 * exp_words > 50 * total_words /\ 100 * exp_words <= 55 * total_words
    THEN 8 * Point
    ELSE 6 * Point
_calculate_section_balance(self) ==
    IF SumValues(self.section_lengths) = 0 THEN 5 * Point
    ELSE Max(0, BalanceOf(ExperienceWords(self), SumValues(self.section_lengths)))

_check_professional_language(content) ==
    Max(0, 10 * Point
           - Min(3 * Point, (Scanned[content].pronouns * Point) \div 2)
           - Min(2 * Point, Scanned[content].passive_count * Point))

\* int(0.5 for each fluff word found)
_check_fluff_words(content) == Scanned[content].fluff \div 2

\* lines 224-236: the metrics part of the content score
MetricsScore(with_metrics, analyzed) ==
    IF analyzed = 0 THEN 5 * Point
    ELSE IF 10 * with_metrics >= 9 * analyzed THEN 15 * Point
    ELSE IF 10 * with_metrics >= 7 * analyzed THEN 12 * Point
    ELSE IF 10 * with_metrics >= 5 * analyzed THEN 8 * Point
    ELSE Max(3, (with_metrics * 15) \div analyzed) * Point

\* lines 238-250, on the analyzer as lines 172-222 leave it
ContentScore(self, content) ==
    Scored(self,
           Min(50 * Point,
               MetricsScore(self.bullets_with_metrics, self.bullets_analyzed)
               + Min(10 * Point, _calculate_power_verb_score(self))
               + Min(10 * Point, _calculate_section_balance(self))
               + Min(10 * Point, _check_professional_language(content))
               + Max(0, 5 - _check_fluff_words(content)) * Point))
\* lines 182-222
Quantified(self, content, analyzed) ==
    ContentScore([self EXCEPT
                    !.bullets_analyzed = analyzed,
                    !.metrics_count = Cardinality(Scanned[content].all_metrics),
                    !.bullets_with_metrics =
                        IF analyzed > 0
                        THEN Scanned[content].bullets_with_metrics ELSE @],
                 content)
\* lines 175-185
Tracked(self, content) ==
    Quantified([self EXCEPT !.power_verb_usage = Scanned[content].verbs @@ @],
               content,
               IF Scanned[content].resume_items = 0
               THEN Scanned[content].items ELSE Scanned[content].resume_items)
_analyze_content(self, content) == Tracked(_identify_sections(self, content), content)

section_groups ==
    << {"summary", "professional summary", "objective"},
       {"skills", "technical skills", "core competencies"},
       {"experience", "professional experience", "work experience"},
       {"education"},
       {"projects", "key projects"} >>
GroupsFound(self) ==
    Cardinality({k \in DOMAIN section_groups :
                    section_groups[k] \cap self.sections_found # {}})
Issue(killer) == "ATS Killer: " \o killer[2]
\* the score of _analyze_format without its last line
FormatPoints(self, latex_content) ==
    20 * Point
    - 2 * Point * Len(Scanned[latex_content].killers)
    - (IF GroupsFound(self) < 5 THEN (5 - GroupsFound(self)) * 2 * Point ELSE 0)
    - (IF Scanned[latex_content].table_count > 1
       THEN (Scanned[latex_content].table_count - 1) * (Point \div 2) ELSE 0)
\* _analyze_format taking 2 points for every issue listed so far
format_counting_issues(self, latex_content) ==
    Scored([self EXCEPT !.ats_issues =
               @ \o [k \in DOMAIN Scanned[latex_content].killers |->
                        Issue(Scanned[latex_content].killers[k])]],
           Max(0, FormatPoints(self, latex_content)
                  - 2 * Point * Len(self.ats_issues)))

\* _analyze_format without the max(0, score) of line 279
format_unclamped(self, latex_content) ==
    Scored([self EXCEPT !.ats_issues =
               @ \o [k \in DOMAIN Scanned[latex_content].killers |->
                        Issue(Scanned[latex_content].killers[k])]],
           FormatPoints(self, latex_content))

_analyze_format(self, latex_content) ==
    Scored([self EXCEPT !.ats_issues =
               @ \o [k \in DOMAIN Scanned[latex_content].killers |->
                        Issue(Scanned[latex_content].killers[k])]],
           Max(0, FormatPoints(self, latex_content)))

\* what one keyword adds to its tier, lines 295-300
KeywordScore(config, n) ==
    IF config.target[1] <= n /\ n <= config.target[2] THEN config.weight
    ELSE IF n > config.target[2] THEN (config.weight * 5) \div 10
    ELSE IF n = config.target[1] - 1 THEN (config.weight * 7) \div 10
    ELSE 0
TierScore(config, counts) ==
    SumValues([k \in DOMAIN config.keywords |->
                  KeywordScore(config, counts[config.keywords[k]])])
\* keyword_scores, category |-> tier_score
KeywordScores(counts) ==
    [category \in {CRITICAL_KEYWORDS_2025[k].category : k \in DOMAIN CRITICAL_KEYWORDS_2025}
        |-> TierScore(CHOOSE config \in Range(CRITICAL_KEYWORDS_2025) :
                         config.category = category, counts)]
\* lines 304-314
KeywordTotal(keyword_scores) ==
    (IF keyword_scores["AI/ML"] >= 6 * Point THEN 10 * Point
     ELSE IF keyword_scores["AI/ML"] >= 3 * Point THEN 6 * Point
     ELSE 2 * Point)
    + Min(10 * Point,
          SumValues([category \in DOMAIN keyword_scores \ {"AI/ML"} |->
                        keyword_scores[category]]) \div 2)
_analyze_keywords(self, content) ==
    Scored([self EXCEPT !.keyword_frequency = Scanned[content].keyword_counts @@ @],
           KeywordTotal(KeywordScores(Scanned[content].keyword_counts)))

_analyze_technical_depth(content) ==
    Min(5 * Point, (Scanned[content].tech_count * Point) \div 2)
    + Min(2 * Point, (Scanned[content].arch_count * Point) \div 2)
    + (IF Scanned[content].scale THEN 3 * Point ELSE 0)

_calculate_grade(score) ==
    IF score >= 95 * Point THEN "A+"
    ELSE IF score >= 90 * Point THEN "A"
    ELSE IF score >= 85 * Point THEN "A-"
    ELSE IF score >= 80 * Point THEN "B+"
    ELSE IF score >= 75 * Point THEN "B"
    ELSE IF score >= 70 * Point THEN "B-"
    ELSE IF score >= 60 * Point THEN "C"
    ELSE "F"

\* _get_missing_sections
critical_sections ==
    << <<"summary", "professional summary">>, <<"skills", "technical skills">>,
       <<"experience", "professional experience">>, <<"education">>,
       <<"projects", "key projects">> >>
Heads(groups) == [k \in DOMAIN groups |-> groups[k][1]]
_get_missing_sections(self) ==
    Heads(SelectSeq(critical_sections,
                    LAMBDA group : Range(group) \cap self.sections_found = {}))

\* _generate_recommendations; a recommendation is kept as its kind and its
\* numbers
\* int((0.9 - metrics_ratio) * bullets_analyzed)
MetricsMissing(with_metrics, analyzed) == (9 * analyzed - 10 * with_metrics) \div 10
MetricsRecs(self) ==
    IF self.bullets_analyzed > 0
       /\ 10 * self.bullets_with_metrics < 9 * self.bullets_analyzed
    THEN << <<"Add metrics to", MetricsMissing(self.bullets_with_metrics,
                                               self.bullets_analyzed)>> >>
    ELSE <<>>
Short(self, config) ==
    Cardinality(VerbsUsed(self, config.category)) < config.required
VerbRec(self, config) ==
    <<"Add power verbs",
      config.required - Cardinality(VerbsUsed(self, config.category)),
      config.category>>
VerbRecsOf(self, short) == [k \in DOMAIN short |-> VerbRec(self, short[k])]
VerbRecs(self) ==
    VerbRecsOf(self, SelectSeq(POWER_VERBS, LAMBDA config : Short(self, config)))
SectionRecs(missing) ==
    IF missing # <<>> THEN << <<"Add missing sections", missing>> >> ELSE <<>>
_generate_recommendations(self) ==
    Take(MetricsRecs(self) \o VerbRecs(self)
         \o SectionRecs(_get_missing_sections(self)), 10)

ResumeScore(overall, content, format, keywords, technical, grade) ==
    [overall |-> overall, content |-> content, format |-> format,
     keywords |-> keywords, technical |-> technical, grade |-> grade]

\* round(bullets_with_metrics / bullets_analyzed * 100, 1), in tenths
RatioTenths(with_metrics, analyzed) ==
    IF analyzed > 0 THEN Round1((with_metrics * 100 * Point) \div analyzed) ELSE 0
_get_verb_category_breakdown(self) ==
    [category \in {POWER_VERBS[k].category : k \in DOMAIN POWER_VERBS} |->
        [used |-> Cardinality(VerbsUsed(self, category)),
         verbs |-> VerbsUsed(self, category)]]
_get_content_breakdown(self) ==
    [bullets_analyzed |-> self.bullets_analyzed,
     bullets_with_metrics |-> self.bullets_with_metrics,
     metrics_ratio |-> RatioTenths(self.bullets_with_metrics, self.bullets_analyzed),
     total_metrics |-> self.metrics_count,
     total_verbs |-> Cardinality(DOMAIN self.power_verb_usage),
     breakdown |-> _get_verb_category_breakdown(self)]
_get_keyword_breakdown(self) ==
    [total_unique_keywords |->
        Cardinality({k \in DOMAIN self.keyword_frequency : self.keyword_frequency[k] > 0}),
     total_mentions |-> SumValues(self.keyword_frequency)]
_get_format_breakdown(self) ==
    [issues_found |-> Len(self.ats_issues), details |-> self.ats_issues,
     required_found |-> Cardinality(self.sections_found),
     sections_list |-> self.sections_found]
_get_compliance_report(self) ==
    [passed |-> (IF self.metrics_count >= 15
                 THEN <<"Sufficient quantification">> ELSE <<>>)
                \o (IF self.ats_issues = <<>>
                    THEN <<"ATS-friendly format">> ELSE <<>>),
     failed |-> IF self.metrics_count >= 15 THEN <<>>
                ELSE << <<"Insufficient metrics", self.metrics_count>> >>,
     recommendations |-> _generate_recommendations(self)]

\* the report with its overall rounded to a whole point
ReportToThePoint(self, content_score, format_score, keyword_score, technical_score) ==
    [self |-> self,
     report |->
        [score |-> ResumeScore(
                      10 * ((content_score + format_score + keyword_score
                             + technical_score + Point \div 2) \div Point),
                      Round1(content_score), Round1(format_score),
                      Round1(keyword_score), Round1(technical_score),
                      _calculate_grade(content_score + format_score
                                       + keyword_score + technical_score)),
         detailed_analysis |->
            [content |-> _get_content_breakdown(self),
             keywords |-> _get_keyword_breakdown(self),
             format |-> _get_format_breakdown(self)],
         recommendations |-> _generate_recommendations(self),
         compliance |-> _get_compliance_report(self)]]

\* lines 138-165: the analyzer as the four phases leave it, and the report
Report(self, content_score, format_score, keyword_score, technical_score) ==
    [self |-> self,
     report |->
        [score |-> ResumeScore(
                      Round1(content_score + format_score + keyword_score
                             + technical_score),
                      Round1(content_score), Round1(format_score),
                      Round1(keyword_score), Round1(technical_score),
                      _calculate_grade(content_score + format_score
                                       + keyword_score + technical_score)),
         detailed_analysis |->
            [content |-> _get_content_breakdown(self),
             keywords |-> _get_keyword_breakdown(self),
             format |-> _get_format_breakdown(self)],
         recommendations |-> _generate_recommendations(self),
         compliance |-> _get_compliance_report(self)]]

KeywordsDone(analysis_text, content_score, format_score, keywords) ==
    Report(keywords.self, content_score, format_score, keywords.score,
           _analyze_technical_depth(analysis_text))
FormatDone(analysis_text, content_score, format) ==
    KeywordsDone(analysis_text, content_score, format.score,
                 _analyze_keywords(format.self, analysis_text))
ContentDone(analysis_text, content) ==
    FormatDone(analysis_text, content.score,
               _analyze_format(content.self, analysis_text))
analyze_comprehensive(self, content, latex_content) ==
    ContentDone(IF latex_content # "" THEN latex_content ELSE content,
                _analyze_content(self, IF latex_content # "" THEN latex_content
                                       ELSE content))

(***************************************************************************)
(* State.                                                                   *)
(***************************************************************************)
VARIABLES
    used_verbs,             \* self.used_verbs, a Counter over VerbKeys
    bullets_total,          \* self.bullets_total
    bullets_with_metrics,   \* self.bullets_with_metrics
    pc,                     \* where optimize_resume_data stands ("idle": not running)
    resume_data,            \* the document of the run, modified in place
    stats,                  \* the stats dict of the run
    exp_idx,                \* i of the loop over experiences_to_optimize
    ach_idx,                \* j of the loop over exp.achievements
    exp_stats,              \* the exp_stats dict of the current experience
    proj_idx,               \* i of the loop over featured
    call,                   \* the latest optimize_content invocation and its payload
    result,                 \* the OptimizationResult it returned
    original_data,          \* the document as it was handed to the run
    returned,               \* unit of the document |-> the result of its call
    ncalls,                 \* direct optimize_content calls since the last run
    prior_state,            \* whether the run began on an instance already used
    generated,              \* the latest generate_keywords call and its outcome
    analyzer,               \* the fields of the Comprehensive2025ResumeAnalyzer
    analyses                \* its calls so far: the text and the report returned

vars == <<used_verbs, bullets_total, bullets_with_metrics, pc, resume_data,
          stats, exp_idx, ach_idx, exp_stats, proj_idx, call, result,
          original_data, returned, ncalls, prior_state, generated, analyzer,
          analyses>>

optimizer == <<used_verbs, bullets_total, bullets_with_metrics>>
run_locals == <<resume_data, stats, exp_idx, ach_idx, exp_stats, proj_idx,
                original_data, returned, prior_state>>
\* the rewrite engine and what is recorded of its use
rewriting == <<optimizer, pc, run_locals, call, result, ncalls>>
\* the other components that AIResumeGenerator.__init__ creates
pipeline == <<generated, analyzer, analyses>>

Self ==
    [used_verbs |-> used_verbs, bullets_total |-> bullets_total,
     bullets_with_metrics |-> bullets_with_metrics]

NoData == [absent |-> TRUE]
NoCall == [section_type |-> "none"]
NoResult == [absent |-> TRUE]
NoStats == [absent |-> TRUE]
NoUnits == [u \in {} |-> NoResult]
NoGeneration == [absent |-> TRUE]

\* what the run remembers of the call made for a unit
Unit(r) == [original |-> r.result.original, optimized |-> r.result.optimized]

Invocation(content, section_type, ai, r) ==
    [content |-> content, section_type |-> section_type, ai |-> ai,
     prompt |-> r.prompt, ai_called |-> r.prompt # NoPrompt,
     candidate |-> r.candidate,
     \* the counters the call found
     bullets_total |-> bullets_total,
     bullets_with_metrics |-> bullets_with_metrics]

\* __init__
Init ==
    /\ used_verbs = EmptyCounter
    /\ bullets_total = 0
    /\ bullets_with_metrics = 0
    /\ pc = "idle"
    /\ resume_data = NoData
    /\ stats = NoStats
    /\ exp_idx = 0
    /\ ach_idx = 0
    /\ exp_stats = NoStats
    /\ proj_idx = 0
    /\ call = NoCall
    /\ result = NoResult
    /\ original_data = NoData
    /\ returned = NoUnits
    /\ ncalls = 0
    /\ prior_state = FALSE
    /\ generated = NoGeneration
    /\ analyzer = NewAnalyzer
    /\ analyses = <<>>

(***************************************************************************)
(* optimize_content called by a client of the instance.                     *)
(***************************************************************************)
DirectCall(content, section_type, ai) ==
    /\ pc = "idle"
    /\ ncalls < MaxCalls
    /\ \E r \in {optimize_content(Self, content, section_type, keyword_profile,
                                  DirectContext(section_type), ai)} :
           /\ used_verbs' = r.used_verbs
           /\ call' = Invocation(content, section_type, ai, r)
           /\ result' = r.result
    /\ ncalls' = ncalls + 1
    /\ UNCHANGED <<bullets_total, bullets_with_metrics, pc, run_locals>>
    /\ UNCHANGED pipeline

(***************************************************************************)
(* optimize_resume_data, one action per step of its loops.                  *)
(***************************************************************************)
LatestExperiences == 3
MinBulletLen == 20

RECURSIVE JoinWith(_, _)
JoinWith(sep, seq) ==
    IF seq = <<>> THEN ""
    ELSE IF Len(seq) = 1 THEN seq[1]
    ELSE seq[1] \o sep \o JoinWith(sep, Tail(seq))

summary_text(summary) ==
    summary.title \o " with " \o ToString(summary.years_of_experience)
    \o "+ years specializing in " \o JoinWith(", ", summary.specializations)
    \o ". " \o summary.key_achievement

\* the selection of line 276 without its slice
every_experience(data) == data.experience

\* resume_data.experience[:3]
experiences_to_optimize(data) == Take(data.experience, LatestExperiences)

\* [a for a in exp.achievements if len(a.strip()) >= 20]
valid_bullets(exp) ==
    SelectSeq(exp.achievements, LAMBDA a : Len(strip(a)) >= MinBulletLen)

\* [p for p in resume_data.projects if p.is_featured], as indexes of projects
featured(data) ==
    SelectSeq([k \in 1..Len(data.projects) |-> k],
              LAMBDA k : data.projects[k].is_featured)

InitStats ==
    [sections_optimized |-> 0, keywords_added |-> 0, repetitions_fixed |-> 0,
     bullets_optimized |-> 0, metrics_added |-> 0, verbs_varied |-> 0,
     errors |-> <<>>]

\* a run that keeps the verb counts it finds (line 237 left out)
StartRunKeepingVerbs(data) ==
    /\ pc = "idle"
    /\ used_verbs' = used_verbs
    /\ bullets_total' = 0
    /\ bullets_with_metrics' = 0
    /\ stats' = InitStats
    /\ resume_data' = data
    /\ original_data' = data
    /\ returned' = NoUnits
    /\ call' = NoCall
    /\ result' = NoResult
    /\ ncalls' = 0
    /\ prior_state' = (optimizer # <<EmptyCounter, 0, 0>>)
    /\ pc' = "summary"
    /\ UNCHANGED <<exp_idx, ach_idx, exp_stats, proj_idx>>
    /\ UNCHANGED pipeline

\* a run that keeps the count of bullets with metrics it finds (line 239
\* left out)
StartRunKeepingMetrics(data) ==
    /\ pc = "idle"
    /\ used_verbs' = EmptyCounter
    /\ bullets_total' = 0
    /\ bullets_with_metrics' = bullets_with_metrics
    /\ stats' = InitStats
    /\ resume_data' = data
    /\ original_data' = data
    /\ returned' = NoUnits
    /\ call' = NoCall
    /\ result' = NoResult
    /\ ncalls' = 0
    /\ prior_state' = (optimizer # <<EmptyCounter, 0, 0>>)
    /\ pc' = "summary"
    /\ UNCHANGED <<exp_idx, ach_idx, exp_stats, proj_idx>>
    /\ UNCHANGED pipeline

\* lines 236-249: reset the counters, fresh stats
StartRun(data) ==
    /\ pc = "idle"
    /\ used_verbs' = EmptyCounter
    /\ bullets_total' = 0
    /\ bullets_with_metrics' = 0
    /\ stats' = InitStats
    /\ resume_data' = data
    /\ original_data' = data
    /\ returned' = NoUnits
    /\ call' = NoCall
    /\ result' = NoResult
    /\ ncalls' = 0
    /\ prior_state' = (optimizer # <<EmptyCounter, 0, 0>>)
    /\ pc' = "summary"
    /\ UNCHANGED <<exp_idx, ach_idx, exp_stats, proj_idx>>
    /\ UNCHANGED pipeline

\* lines 251-272
OptimizeSummary(ai) ==
    /\ pc = "summary"
    /\ resume_data.summary # NoSummary
    /\ \E r \in {optimize_content(Self, summary_text(resume_data.summary),
                                  "summary", keyword_profile,
                                  [role |-> resume_data.summary.title], ai)} :
           /\ used_verbs' = r.used_verbs
           /\ call' = Invocation(r.result.original, "summary", ai, r)
           /\ result' = r.result
           /\ returned' = (<<"summary", 0, 0>> :> Unit(r)) @@ returned
           /\ stats' =
                IF r.result.optimized # r.result.original
                THEN [stats EXCEPT
                        !.sections_optimized = @ + 1,
                        !.keywords_added = @ + Len(r.result.keywords_added)]
                ELSE stats
    /\ pc' = "experience"
    /\ exp_idx' = 1
    /\ prior_state' = FALSE
    /\ UNCHANGED <<bullets_total, bullets_with_metrics, resume_data, ach_idx,
                   exp_stats, proj_idx, original_data, ncalls>>
    /\ UNCHANGED pipeline

\* line 252, the summary is absent
SkipSummary ==
    /\ pc = "summary"
    /\ resume_data.summary = NoSummary
    /\ pc' = "experience"
    /\ exp_idx' = 1
    /\ prior_state' = FALSE
    /\ UNCHANGED <<optimizer, resume_data, stats, ach_idx, exp_stats, proj_idx,
                   call, result, original_data, returned, ncalls>>
    /\ UNCHANGED pipeline

\* lines 278-289 with "=" where the code has "+=" (lines 288-289)
BeginExperienceAssigning ==
    /\ pc = "experience"
    /\ exp_idx <= Len(experiences_to_optimize(resume_data))
    /\ LET exp == experiences_to_optimize(resume_data)[exp_idx]
           valid == valid_bullets(exp)
       IN  /\ bullets_total' = Len(valid)
           /\ bullets_with_metrics' =
                Cardinality({k \in DOMAIN valid : _has_metrics(valid[k])})
    /\ exp_stats' = [optimized |-> 0, keywords |-> 0, verbs |-> 0, metrics |-> 0]
    /\ ach_idx' = 1
    /\ pc' = "bullets"
    /\ UNCHANGED <<used_verbs, resume_data, stats, exp_idx, proj_idx, call,
                   result, original_data, returned, ncalls, prior_state>>
    /\ UNCHANGED pipeline

\* lines 278-289: count the bullets of the entry and those with metrics
BeginExperience ==
    /\ pc = "experience"
    /\ exp_idx <= Len(experiences_to_optimize(resume_data))
    /\ LET exp == experiences_to_optimize(resume_data)[exp_idx]
           valid == valid_bullets(exp)
       IN  /\ bullets_total' = bullets_total + Len(valid)
           /\ bullets_with_metrics' =
                bullets_with_metrics
                + Cardinality({k \in DOMAIN valid : _has_metrics(valid[k])})
    /\ exp_stats' = [optimized |-> 0, keywords |-> 0, verbs |-> 0, metrics |-> 0]
    /\ ach_idx' = 1
    /\ pc' = "bullets"
    /\ UNCHANGED <<used_verbs, resume_data, stats, exp_idx, proj_idx, call,
                   result, original_data, returned, ncalls, prior_state>>
    /\ UNCHANGED pipeline

\* lines 292-294: a short bullet is passed over
SkipBullet ==
    /\ pc = "bullets"
    /\ ach_idx <= Len(resume_data.experience[exp_idx].achievements)
    /\ Len(strip(resume_data.experience[exp_idx].achievements[ach_idx])) < MinBulletLen
    /\ ach_idx' = ach_idx + 1
    /\ UNCHANGED <<optimizer, pc, resume_data, stats, exp_idx, exp_stats,
                   proj_idx, call, result, original_data, returned, ncalls,
                   prior_state>>
    /\ UNCHANGED pipeline

\* the test of line 312 without result.has_metrics
original_lacked_metric(res) == ~_has_metrics(res.original)

\* line 312: result.has_metrics and not self._has_metrics(result.original)
metric_gained(res) == res.has_metrics /\ ~_has_metrics(res.original)

\* lines 296-321
OptimizeBullet(ai) ==
    /\ pc = "bullets"
    /\ ach_idx <= Len(resume_data.experience[exp_idx].achievements)
    /\ Len(strip(resume_data.experience[exp_idx].achievements[ach_idx])) >= MinBulletLen
    /\ \E exp \in {resume_data.experience[exp_idx]} :
       \E r \in {optimize_content(Self, exp.achievements[ach_idx], "experience",
                                  keyword_profile,
                                  [company |-> exp.company, position |-> exp.position,
                                   technologies |-> exp.technologies], ai)} :
       \E changed \in {r.result.optimized # r.result.original} :
       \E metric_added \in {changed /\ metric_gained(r.result)} :
       \E varied \in {changed /\ Contains(JoinWith(", ", r.result.improvements),
                                           "Varied verb")} :
           /\ used_verbs' = r.used_verbs
           /\ call' = Invocation(r.result.original, "experience", ai, r)
           /\ result' = r.result
           /\ returned' = (<<"experience", exp_idx, ach_idx>> :> Unit(r)) @@ returned
           /\ resume_data' =
                IF changed
                THEN [resume_data EXCEPT
                        !.experience[exp_idx].achievements[ach_idx] = r.result.optimized]
                ELSE resume_data
           /\ bullets_with_metrics' =
                IF metric_added THEN bullets_with_metrics + 1 ELSE bullets_with_metrics
           /\ exp_stats' =
                IF changed
                THEN [optimized |-> exp_stats.optimized + 1,
                      keywords |-> exp_stats.keywords + Len(r.result.keywords_added),
                      verbs |-> exp_stats.verbs + (IF varied THEN 1 ELSE 0),
                      metrics |-> exp_stats.metrics + (IF metric_added THEN 1 ELSE 0)]
                ELSE exp_stats
           /\ stats' =
                IF changed
                THEN [stats EXCEPT
                        !.bullets_optimized = @ + 1,
                        !.keywords_added = @ + Len(r.result.keywords_added)]
                ELSE stats
    /\ ach_idx' = ach_idx + 1
    /\ UNCHANGED <<bullets_total, pc, exp_idx, proj_idx, original_data, ncalls,
                   prior_state>>
    /\ UNCHANGED pipeline

\* lines 323-329 followed by an exit from the loop over the entries
EndExperienceLeavingLoop ==
    /\ pc = "bullets"
    /\ ach_idx > Len(resume_data.experience[exp_idx].achievements)
    /\ stats' =
         IF exp_stats.optimized > 0
         THEN [stats EXCEPT
                 !.sections_optimized = @ + 1,
                 !.verbs_varied = @ + exp_stats.verbs,
                 !.metrics_added = @ + exp_stats.metrics]
         ELSE stats
    /\ proj_idx' = 1
    /\ pc' = "projects"
    /\ UNCHANGED <<optimizer, resume_data, exp_idx, ach_idx, exp_stats, call,
                   result, original_data, returned, ncalls, prior_state>>
    /\ UNCHANGED pipeline

\* lines 323-329: the entry's bullets are done
EndExperience ==
    /\ pc = "bullets"
    /\ ach_idx > Len(resume_data.experience[exp_idx].achievements)
    /\ stats' =
         IF exp_stats.optimized > 0
         THEN [stats EXCEPT
                 !.sections_optimized = @ + 1,
                 !.verbs_varied = @ + exp_stats.verbs,
                 !.metrics_added = @ + exp_stats.metrics]
         ELSE stats
    /\ exp_idx' = exp_idx + 1
    /\ pc' = "experience"
    /\ UNCHANGED <<optimizer, resume_data, ach_idx, exp_stats, proj_idx, call,
                   result, original_data, returned, ncalls, prior_state>>
    /\ UNCHANGED pipeline

\* lines 331-337: the selected entries are done, older ones are skipped
BeginProjects ==
    /\ pc = "experience"
    /\ exp_idx > Len(experiences_to_optimize(resume_data))
    /\ proj_idx' = 1
    /\ pc' = "projects"
    /\ UNCHANGED <<optimizer, resume_data, stats, exp_idx, ach_idx, exp_stats,
                   call, result, original_data, returned, ncalls, prior_state>>
    /\ UNCHANGED pipeline

\* lines 339-358
OptimizeProject(ai) ==
    /\ pc = "projects"
    /\ proj_idx <= Len(featured(resume_data))
    /\ \E k \in {featured(resume_data)[proj_idx]} :
       \E proj \in {resume_data.projects[k]} :
       \E r \in {optimize_content(Self, proj.description, "projects", keyword_profile,
                                  [project_name |-> proj.name,
                                   technologies |-> proj.technologies], ai)} :
       \E changed \in {r.result.optimized # r.result.original} :
           /\ used_verbs' = r.used_verbs
           /\ call' = Invocation(r.result.original, "projects", ai, r)
           /\ result' = r.result
           /\ returned' = (<<"projects", k, 0>> :> Unit(r)) @@ returned
           /\ resume_data' =
                IF changed
                THEN [resume_data EXCEPT !.projects[k].description = r.result.optimized]
                ELSE resume_data
           /\ stats' =
                IF changed
                THEN [stats EXCEPT
                        !.sections_optimized = @ + 1,
                        !.keywords_added = @ + Len(r.result.keywords_added)]
                ELSE stats
    /\ proj_idx' = proj_idx + 1
    /\ UNCHANGED <<bullets_total, bullets_with_metrics, pc, exp_idx, ach_idx,
                   exp_stats, original_data, ncalls, prior_state>>
    /\ UNCHANGED pipeline

\* lines 360-382: return resume_data, stats
Finish ==
    /\ pc = "projects"
    /\ proj_idx > Len(featured(resume_data))
    /\ pc' = "done"
    /\ UNCHANGED <<optimizer, resume_data, stats, exp_idx, ach_idx, exp_stats,
                   proj_idx, call, result, original_data, returned, ncalls,
                   prior_state>>
    /\ UNCHANGED pipeline

\* the caller has taken the returned document; the instance stays as it is
Release ==
    /\ pc = "done"
    /\ pc' = "idle"
    /\ resume_data' = NoData
    /\ stats' = NoStats
    /\ exp_idx' = 0
    /\ ach_idx' = 0
    /\ exp_stats' = NoStats
    /\ proj_idx' = 0
    /\ call' = NoCall
    /\ result' = NoResult
    /\ original_data' = NoData
    /\ returned' = NoUnits
    /\ UNCHANGED <<optimizer, ncalls, prior_state>>
    /\ UNCHANGED pipeline

NextCall ==
    \E content \in Contents, section_type \in SectionTypes, ai \in Responses :
        DirectCall(content, section_type, ai)

Next ==
    \/ \E content \in RunContents, ai \in RunResponses :
           DirectCall(content, "experience", ai)
    \/ \E data \in Documents : StartRun(data)
    \/ \E ai \in RunResponses : OptimizeSummary(ai)
    \/ SkipSummary
    \/ BeginExperience
    \/ SkipBullet
    \/ \E ai \in RunResponses : OptimizeBullet(ai)
    \/ EndExperience
    \/ BeginProjects
    \/ \E ai \in RunResponses : OptimizeProject(ai)
    \/ Finish
    \/ Release

\* an instance whose optimize_content is called directly
SpecCall == Init /\ [][NextCall]_vars
\* an instance used for runs of optimize_resume_data and for direct calls
Spec == Init /\ [][Next]_vars

(***************************************************************************)
(* generate_keywords called by a client of the keyword generator, which     *)
(* keeps nothing between calls.                                             *)
(***************************************************************************)
GenerateKeywords(job_role, job_description, user_experience, ai) ==
    /\ generated' =
         [job_role |-> job_role, job_description |-> job_description,
          user_experience |-> user_experience, ai |-> ai,
          outcome |-> generate_keywords(job_role, job_description,
                                        user_experience, TargetCompany, ai)]
    /\ UNCHANGED <<rewriting, analyzer, analyses>>

NextKeywords ==
    \E job_role \in JobRoles, job_description \in JobDescriptions,
       user_experience \in UserExperiences, ai \in KeywordResponses :
        GenerateKeywords(job_role, job_description, user_experience, ai)

\* a keyword generator that is called again and again
SpecKeywords == Init /\ [][NextKeywords]_vars

(***************************************************************************)
(* analyze_comprehensive called as _phase4_analysis calls it, with the      *)
(* rendered document as content and as latex_content, on the one analyzer   *)
(* that AIResumeGenerator.__init__ creates.                                 *)
(***************************************************************************)
Analyze(latex_content) ==
    /\ Len(analyses) < MaxAnalyses
    /\ \E r \in {analyze_comprehensive(analyzer, latex_content, latex_content)} :
           /\ analyzer' = r.self
           /\ analyses' = Append(analyses, [text |-> latex_content,
                                            report |-> r.report])
    /\ UNCHANGED <<rewriting, generated>>

NextScore == \E latex_content \in AnalysisTexts : Analyze(latex_content)

\* an analyzer that is handed one rendered document after another
SpecScore == Init /\ [][NextScore]_vars

(***************************************************************************)
(* Properties.  The number tokens of a text are its maximal digit runs;     *)
(* a result is accepted when its improvement tags flag none of skipped,     *)
(* no response, validation failed, error.                                   *)
(***************************************************************************)
NumberTokens(text) == FindRuns(Digits, text, 1)

Flagged(res) ==
    /\ Len(res.improvements) = 1
    /\ \/ res.improvements[1] \in
            {"Skipped: Too short", "No AI response", "Validation failed"}
       \/ StartsAt(res.improvements[1], 1, "Error: ")

Accepted == result # NoResult /\ ~Flagged(result)

\* how many number tokens of the original occur somewhere in the text
OccurringIn(original, text) ==
    Cardinality({k \in DOMAIN NumberTokens(original) :
                    Contains(text, NumberTokens(original)[k])})

\* how many number tokens of the original are number tokens of the text
TokensIn(original, text) ==
    Cardinality({k \in DOMAIN NumberTokens(original) :
                    \E j \in DOMAIN NumberTokens(text) :
                        NumberTokens(text)[j] = NumberTokens(original)[k]})

\* a step in which optimize_content has been called, directly or by the run
CallMade ==
    \/ pc = "idle" /\ pc' = "idle" /\ ncalls' = ncalls + 1
    \/ pc # "idle" /\ pc' # "idle" /\ DOMAIN returned' # DOMAIN returned

\* the text of a unit (summary, bullet j of entry i, description of project k)
UnitText(data, u) ==
    IF u[1] = "summary" THEN summary_text(data.summary)
    ELSE IF u[1] = "experience" THEN data.experience[u[2]].achievements[u[3]]
    ELSE data.projects[u[2]].description

\* the units of a document that are eligible for rewriting
EligibleBullets(data) ==
    UNION { { <<"experience", i, j>> :
                j \in { j \in DOMAIN data.experience[i].achievements :
                          Len(strip(data.experience[i].achievements[j])) >= 20 } } :
            i \in 1..Min(3, Len(data.experience)) }

EligibleUnits(data) ==
    (IF data.summary # NoSummary THEN {<<"summary", 0, 0>>} ELSE {})
    \cup EligibleBullets(data)
    \cup { <<"projects", k, 0>> :
             k \in {k \in DOMAIN data.projects : data.projects[k].is_featured} }

\* C1 as stated: whenever optimize_content accepts a rewrite, every number
\* token of the original text occurs in the optimized text.  Refuted: the
\* validation accepts a candidate that keeps four of five numbers.
C1_EveryNumberKept ==
    Accepted =>
        \A k \in DOMAIN NumberTokens(result.original) :
            Contains(result.optimized, NumberTokens(result.original)[k])

\* C1, amended: whenever optimize_content accepts a rewrite, at least 80% of
\* the number tokens of the original text (counted with repetition) occur in
\* the optimized text; up to one in five may be missing.
C1_MostNumbersKept ==
    Accepted =>
        10 * OccurringIn(result.original, result.optimized)
            >= 8 * Len(NumberTokens(result.original))

\* an accepted rewrite that has lost one of the numbers of the original
C1_AcceptedWithNumberLost ==
    /\ Accepted
    /\ result.optimized # result.original
    /\ \E k \in DOMAIN NumberTokens(result.original) :
           ~Contains(result.optimized, NumberTokens(result.original)[k])

\* C2: whenever optimize_content accepts a rewrite, the length of the
\* optimized text is at least 0.4 times and at most 3 times the length of
\* the original text, both ends included.
C2_LengthWithinBand ==
    Accepted =>
        /\ 10 * Len(result.optimized) >= 4 * Len(result.original)
        /\ Len(result.optimized) <= 3 * Len(result.original)

\* an accepted rewrite exactly three times as long as the original
C2_AcceptedAtUpperEnd ==
    /\ Accepted
    /\ result.optimized # result.original
    /\ Len(result.optimized) = 3 * Len(result.original)

\* C3 as stated: the validation rejects whenever the original has a number
\* token and fewer than 80% of its number tokens are number tokens of the
\* candidate (5 inside 50 not counting).  Refuted: line 516 tests "num in
\* optimized", a substring test, so 5 is found inside 50.
C3_RejectsNumbersNotReappearing ==
    ( /\ call.section_type # "none"
      /\ call.candidate # NoCandidate
      /\ Len(NumberTokens(call.content)) > 0
      /\ 10 * TokensIn(call.content, call.candidate[1])
            < 8 * Len(NumberTokens(call.content)) )
    => result.improvements = <<"Validation failed">>

\* C4: optimize_content always returns a result; when the collaborator
\* raises or answers nothing, or when the validation rejects the candidate,
\* the result's optimized text is the original text, its keywords_added and
\* repetitions_fixed are empty and its single improvement tag names the
\* outcome.
C4_FailureReturnsOriginal ==
    (call.section_type # "none" /\ call.ai_called) =>
        LET kept == /\ result.original = call.content
                    /\ result.optimized = call.content
                    /\ result.keywords_added = <<>>
                    /\ result.repetitions_fixed = NoDict
            empty == \/ call.ai.kind = "none"
                     \/ call.ai.kind = "text" /\ strip(call.ai.text) = ""
        IN  /\ result # NoResult
            /\ call.ai.kind = "raise" =>
                 kept /\ result.improvements = <<"Error: " \o call.ai.message>>
            /\ empty => kept /\ result.improvements = <<"No AI response">>
            /\ ( /\ call.ai.kind = "text"
                 /\ ~empty
                 /\ ~_validate_simple(call.content, call.candidate[1]) )
               => kept /\ result.improvements = <<"Validation failed">>

\* each of the three failures has happened: here the collaborator raised
C4_CollaboratorRaised ==
    /\ call.section_type # "none"
    /\ call.ai.kind = "raise"
    /\ result.optimized = call.content
    /\ result.improvements = <<"Error: connection refused">>

\* C5: a call of optimize_content with a text that is empty or has fewer
\* than 10 characters once trimmed returns the text as it is, tagged
\* "Skipped: Too short", sends nothing to the collaborator and leaves the
\* verb counts and both bullet counters as they were.
C5_ShortTextSkipped ==
    [][ (CallMade /\ Len(strip(call'.content)) < 10) =>
            /\ result'.original = call'.content
            /\ result'.optimized = call'.content
            /\ result'.improvements = <<"Skipped: Too short">>
            /\ ~call'.ai_called
            /\ used_verbs' = used_verbs
            /\ bullets_total' = bullets_total
            /\ bullets_with_metrics' = bullets_with_metrics ]_vars

\* a text of 14 characters, 8 once trimmed, skipped on an instance whose
\* counts are not empty
C5_PaddedTextSkipped ==
    /\ call.section_type # "none"
    /\ Len(call.content) >= 10
    /\ Len(strip(call.content)) < 10
    /\ result.improvements = <<"Skipped: Too short">>
    /\ used_verbs # EmptyCounter
    /\ bullets_total > 0

\* C6: when optimize_content is called with a text of at least 10 trimmed
\* characters and the rewrite is not accepted, the count of each known power
\* verb that is a word of the original text grows by exactly 1 and nothing
\* else of the rewrite state changes: no other verb count, neither bullet
\* counter, and not the document.
C6_RejectedCountsOriginalVerbs ==
    [][ ( /\ CallMade
          /\ Len(strip(call'.content)) >= 10
          /\ Flagged(result') ) =>
            /\ \E text \in {lower(call'.content)} :
               \E words \in {WordsOf(text)} :
               \A v \in VerbKeys :
                 used_verbs'[v] = used_verbs[v] + (IF v \in words THEN 1 ELSE 0)
            /\ bullets_total' = bullets_total
            /\ bullets_with_metrics' = bullets_with_metrics
            /\ resume_data' = resume_data ]_vars

\* the validation has rejected a candidate opening with "Engineered" for a
\* bullet opening with "Led": "led" is counted and "engineered" is not
C6_RejectedVerbUncounted ==
    /\ call.section_type = "experience"
    /\ result.improvements = <<"Validation failed">>
    /\ call.candidate # NoCandidate
    /\ "engineered" \in WordsOf(lower(call.candidate[1]))
    /\ "led" \in WordsOf(lower(call.content))
    /\ used_verbs["engineered"] = 0
    /\ used_verbs["led"] > 0

\* C7: within a run of optimize_resume_data, after its reset, no verb count,
\* nor bullets_total, nor bullets_with_metrics decreases in any step.
C7_CountsNeverDecrease ==
    [][ pc # "idle" =>
            /\ \A v \in VerbKeys : used_verbs'[v] >= used_verbs[v]
            /\ bullets_total' >= bullets_total
            /\ bullets_with_metrics' >= bullets_with_metrics ]_vars

\* a run over three entries has ended with all three kinds of count grown
C7_RunHasCounted ==
    /\ pc = "done"
    /\ Len(original_data.experience) >= 3
    /\ bullets_total >= 3
    /\ bullets_with_metrics >= 2
    /\ \E v \in VerbKeys : used_verbs[v] >= 3

\* C8: every run of optimize_resume_data starts, before its first call of
\* optimize_content, with all verb counts 0 and both bullet counters 0,
\* whatever earlier runs and earlier direct calls left on the instance.
C8_RunStartsEmpty ==
    pc = "summary" =>
        /\ used_verbs = EmptyCounter
        /\ bullets_total = 0
        /\ bullets_with_metrics = 0

\* a run has started on an instance that earlier use had left with counts
C8_RunStartedOnUsedInstance == pc = "summary" /\ prior_state

\* C9: a run passes to optimize_content only the summary, the bullets of at
\* least 20 trimmed characters of the first three experience entries and the
\* descriptions of the featured projects, each with its original text, and
\* at its end has passed all of them; every other bullet and description is
\* at every step what it was before the run, and bullets_total ends as the
\* number of eligible bullets.
C9_OnlyEligibleUnitsRewritten ==
    pc # "idle" =>
        /\ DOMAIN returned \subseteq EligibleUnits(original_data)
        /\ \A u \in DOMAIN returned :
             returned[u].original = UnitText(original_data, u)
        /\ \A i \in DOMAIN original_data.experience :
             /\ DOMAIN resume_data.experience[i].achievements
                  = DOMAIN original_data.experience[i].achievements
             /\ \A j \in DOMAIN original_data.experience[i].achievements :
                  <<"experience", i, j>> \notin EligibleUnits(original_data)
                  => resume_data.experience[i].achievements[j]
                       = original_data.experience[i].achievements[j]
        /\ \A k \in DOMAIN original_data.projects :
             ~original_data.projects[k].is_featured
             => resume_data.projects[k] = original_data.projects[k]
        /\ pc = "done" =>
             /\ DOMAIN returned = EligibleUnits(original_data)
             /\ bullets_total = Cardinality(EligibleBullets(original_data))

\* a run has ended on a document with a fourth entry, a short bullet and a
\* project that is not featured, having rewritten an eligible bullet
C9_RunWithIneligibleUnits ==
    /\ pc = "done"
    /\ Len(original_data.experience) > 3
    /\ \E i \in 1..3 : \E j \in DOMAIN original_data.experience[i].achievements :
         Len(strip(original_data.experience[i].achievements[j])) < 20
    /\ \E k \in DOMAIN original_data.projects :
         ~original_data.projects[k].is_featured
    /\ \E u \in DOMAIN returned :
         u[1] = "experience" /\ returned[u].optimized # returned[u].original
    /\ resume_data.experience # original_data.experience

\* C10 as stated: when the run has ended, the returned document holds, for
\* every unit passed to optimize_content, the optimized text of its result
\* (the original text when the rewrite was rejected or skipped).  Refuted
\* for the summary: lines 260-272 update the stats and drop result.optimized.
C10_DocumentHoldsResults ==
    pc = "done" =>
        \A u \in DOMAIN returned :
            UnitText(resume_data, u) = returned[u].optimized
\* C11 as stated: within a run, once the count of a power verb is 3 or
\* more, no bullet processed after that receives an accepted rewrite whose
\* leading verb is that verb.  Refuted: the prompt lists the verb under
\* "avoid" (lines 419-431) and nothing checks what the collaborator answers.
C11_OverusedVerbNotLeading ==
    [][ ( /\ pc = "bullets"
          /\ CallMade
          /\ ~Flagged(result')
          /\ result'.optimized # result'.original ) =>
            \E verb \in {lower(_extract_leading_verb(result'.optimized))} :
                verb \in VerbKeys => used_verbs[verb] < 3 ]_vars

\* what generate_keywords returns when nothing of the collaborator is used
FallbackProfile(job_role) ==
    _build_keyword_profile(job_role,
        _fallback_keywords(_get_base_keywords(_normalize_role(job_role))), {})

\* the collaborator raised, answered no text, no object in braces, or an
\* object that does not parse
NothingUsable(ai) ==
    \/ ai.kind # "text"
    \/ json_match(ai.text) = <<>>
    \/ ~json_loads(json_match(ai.text)[1]).ok

\* C12 as stated: generate_keywords returns a KeywordProfile for every
\* collaborator behaviour and never raises to its caller, and the profile is
\* the fallback of the normalized role when the collaborator raised, answered
\* no structured object or an object that fails to parse.  Refuted: an answer
\* that parses is returned as it is (line 233) and _print_keyword_summary
\* (line 104, outside the try) takes len() of its values.
C12_NeverRaisesToCaller ==
    generated # NoGeneration =>
        /\ generated.outcome.kind = "returned"
        /\ NothingUsable(generated.ai) =>
              generated.outcome.profile = FallbackProfile(generated.job_role)

\* C13 as stated: for every collaborator response the returned KeywordProfile
\* has non-empty primary, secondary and technical keyword lists.  Refuted: a
\* parsed answer is not checked for its keys, a missing key becomes [].
NonEmptyList(v) == v.type = "list" /\ Len(v.items) > 0
C13_ProfileListsNonEmpty ==
    (generated # NoGeneration /\ generated.outcome.kind = "returned") =>
        /\ NonEmptyList(generated.outcome.profile.primary_keywords)
        /\ NonEmptyList(generated.outcome.profile.secondary_keywords)
        /\ NonEmptyList(generated.outcome.profile.technical_skills)

\* the report a new analyzer gives for a text
FreshReport(text) == analyze_comprehensive(NewAnalyzer, text, text).report
\* the difference of two numbers
Dist(a, b) == IF a >= b THEN a - b ELSE b - a
\* the threshold ladder on a reported overall, a number of tenths
Ladder(overall) == _calculate_grade(overall * Tenth)

\* C14 as stated: the report for a document is the same whatever the same
\* analyzer instance analysed before, i.e. the report of a new analyzer.
\* Refuted: analyze_comprehensive resets no field; sections_found and
\* power_verb_usage only grow and ats_issues is appended to.
C14_ReportIndependentOfHistory ==
    \A k \in DOMAIN analyses : analyses[k].report = FreshReport(analyses[k].text)

\* C15: two analyses in a row of the same text by the same instance give the
\* same ResumeScore (overall, the four sub-scores, the grade).
C15_SameTextSameScore ==
    \A k \in DOMAIN analyses :
        (k > 1 /\ analyses[k - 1].text = analyses[k].text) =>
            analyses[k].report.score = analyses[k - 1].report.score
\* a text with an ATS issue analysed twice in a row: the issue is listed
\* twice, the score is what it was
C15_AnalysedTwiceInARow ==
    /\ Len(analyses) >= 2
    /\ analyses[1].text = TablesText
    /\ analyses[2].text = TablesText
    /\ Len(analyzer.ats_issues) = 2
    /\ analyses[2].report.score.format = 70

\* C16: the reported overall differs from the sum of the four reported
\* sub-scores by no more than 0.1, i.e. one tenth.
C16_OverallNearSumOfParts ==
    \A k \in DOMAIN analyses :
        Dist(analyses[k].report.score.overall,
             analyses[k].report.score.content + analyses[k].report.score.format
             + analyses[k].report.score.keywords
             + analyses[k].report.score.technical) <= 1
\* an analysis whose overall is a tenth away from the sum of its parts
C16_OverallOffByATenth ==
    \E k \in DOMAIN analyses :
        Dist(analyses[k].report.score.overall,
             analyses[k].report.score.content + analyses[k].report.score.format
             + analyses[k].report.score.keywords
             + analyses[k].report.score.technical) = 1

\* C17: overall is in [0,100], content in [0,50], format in [0,20], keywords
\* in [0,20] and technical in [0,10]; the reported numbers are tenths.
C17_ScoresInRange ==
    \A k \in DOMAIN analyses :
        /\ analyses[k].report.score.overall \in 0..1000
        /\ analyses[k].report.score.content \in 0..500
        /\ analyses[k].report.score.format \in 0..200
        /\ analyses[k].report.score.keywords \in 0..200
        /\ analyses[k].report.score.technical \in 0..100
\* a text whose format deductions exceed 20 points has been analysed
C17_DeductionsBeyondZero ==
    \E k \in DOMAIN analyses :
        /\ analyses[k].text = HostileText
        /\ analyses[k].report.score.format = 0

\* C18 as stated: the grade of a ResumeScore is the threshold ladder applied
\* to the overall reported in the same ResumeScore.  Refuted: the grade is
\* taken from the sum before it is rounded (line 141), the overall is
\* reported after rounding (line 147).
C18_GradeFollowsReportedOverall ==
    \A k \in DOMAIN analyses :
        analyses[k].report.score.grade = Ladder(analyses[k].report.score.overall)

\* C19 as stated: a text with no occurrence of any tier keyword has the
\* keywords sub-score 2.0.  Refuted: the Core Skills tier has the target
\* (1, 3), so a count of 0 is min_target - 1 and earns 0.7 of the weight
\* (line 299).
NoTierKeyword(text) ==
    \A keyword \in AllKeywords : count(lower(text), lower(keyword)) = 0
C19_NoKeywordScoresTwo ==
    \A k \in DOMAIN analyses :
        NoTierKeyword(analyses[k].text) => analyses[k].report.score.keywords = 20

\* C20 as stated: the format sub-score is 20.0 for a text with no ATS-hostile
\* construct, at most one tabular and each of the five required sections
\* present under any of its recognized header synonyms.  Refuted:
\* _identify_sections never records "objective" or "core competencies",
\* which _analyze_format looks for.
UnderSomeSynonym(text) ==
    \A k \in DOMAIN section_groups :
        \E name \in section_groups[k] : Contains(lower(text), name)
C20_FullFormatScore ==
    \A k \in DOMAIN analyses :
        ( /\ KillersIn(analyses[k].text) = <<>>
          /\ count(analyses[k].text, "\\begin{tabular}") <= 1
          /\ UnderSomeSynonym(analyses[k].text) ) =>
            analyses[k].report.score.format = 200

\* the coverage test of optimize_content on the counters as they stand
CoverageBelowTarget ==
    bullets_total = 0 \/ bullets_with_metrics * 100 < 85 * bullets_total

\* C21: whenever optimize_content builds the payload for an experience
\* bullet, the payload carries the add-a-metric instruction (needs_metrics)
\* exactly when the text contains no metric and the coverage
\* bullets_with_metrics / bullets_total found by the call is below 85%
\* (coverage 0 when no bullet has been counted).
C21_NeedsMetricsExactlyWhenUncovered ==
    [][(CallMade /\ call'.section_type = "experience" /\ call'.ai_called) =>
          /\ call'.prompt.metrics_guidance
               = (~_has_metrics(call'.content) /\ CoverageBelowTarget)
          /\ call'.prompt.add_metrics_instruction = call'.prompt.metrics_guidance]_vars

\* the bullet "Built a pipeline", met at 50% coverage, has been flagged
C21_FlaggedAtHalfCoverage ==
    /\ call.section_type = "experience"
    /\ call.ai_called
    /\ call.content = "Built a pipeline"
    /\ call.bullets_total > 0
    /\ 2 * call.bullets_with_metrics = call.bullets_total
    /\ call.prompt.add_metrics_instruction

\* the known power verbs occurring in a text, as the keys of used_verbs
VerbsOccurringIn(text) ==
    {verb_lower[verb] : verb \in Range(_extract_all_verbs(text))}

\* C22: when optimize_content accepts a rewrite, the usage count of every
\* known power verb grows by exactly 1 if the verb occurs in the original or
\* in the accepted text (a verb occurring in both is counted once, a verb
\* the rewrite introduces is counted once), and by 0 otherwise; no count
\* grows by more than 1 in one call.
C22_EachVerbCountedOnce ==
    [][(CallMade /\ Accepted') =>
          \A occurring \in {VerbsOccurringIn(result'.original)
                               \cup VerbsOccurringIn(result'.optimized)} :
          \A v \in VerbKeys :
              used_verbs'[v] - used_verbs[v] = IF v \in occurring THEN 1 ELSE 0]_vars

\* an accepted rewrite that repeats a verb of the original and brings a new one
C22_RewriteSharesAndAddsVerbs ==
    /\ Accepted
    /\ VerbsOccurringIn(result.original) \cap VerbsOccurringIn(result.optimized) # {}
    /\ VerbsOccurringIn(result.optimized) \ VerbsOccurringIn(result.original) # {}
    /\ \A v \in VerbsOccurringIn(result.optimized) : used_verbs[v] = 1

\* the accepted text of the latest call has a metric and its original has none
MetricIntroduced(res) ==
    /\ ~Flagged(res)
    /\ _has_metrics(res.optimized)
    /\ ~_has_metrics(res.original)

\* C23 as stated: a call of optimize_content that accepts a rewrite with a
\* metric for an original without one increases bullets_with_metrics by
\* exactly one, whatever the unit type; any other call leaves it as it is.
\* Refuted: the counter is increased by the experience loop of
\* optimize_resume_data only.
C23_MetricCountedForEveryUnit ==
    [][CallMade =>
          bullets_with_metrics' - bullets_with_metrics =
              IF MetricIntroduced(result') THEN 1 ELSE 0]_vars

\* C23, amended: the step of an optimize_resume_data run that rewrites an
\* experience bullet increases bullets_with_metrics by exactly one when the
\* accepted text contains a metric and the original contained none, and
\* leaves it unchanged when the rewrite is rejected or introduces no metric;
\* no call for a summary or a project and no direct call changes it.
C23_MetricCountedForRunBullets ==
    [][CallMade =>
          bullets_with_metrics' - bullets_with_metrics =
              IF /\ pc = "bullets"
                 /\ call'.section_type = "experience"
                 /\ MetricIntroduced(result')
              THEN 1 ELSE 0]_vars

\* a bullet of a run has been rewritten with a metric it did not have
C23_BulletGainedMetric ==
    /\ pc = "bullets"
    /\ call.section_type = "experience"
    /\ result # NoResult
    /\ MetricIntroduced(result)
    /\ bullets_with_metrics = call.bullets_with_metrics + 1

\* the usage count of a verb at the moment the payload is built: the count
\* the call found plus one if the verb is among those of the text it was given
CountAtPayload(v, in_text) == used_verbs[v] + (IF v \in in_text THEN 1 ELSE 0)

\* C24: in the payload built for a bullet, the verbs to avoid are exactly the
\* verbs whose usage count, the verbs of the current text included, is 3 or
\* more, and none of the available verbs offered is one of them.
C24_AvoidListIsOverusedVerbs ==
    [][(CallMade /\ call'.section_type = "experience" /\ call'.ai_called) =>
          /\ \A in_text \in {VerbsOccurringIn(call'.content)} :
                 call'.prompt.verbs_to_avoid =
                     {v \in VerbKeys : CountAtPayload(v, in_text) >= 3}
          /\ \A k \in DOMAIN call'.prompt.available_verbs :
                 verb_lower[call'.prompt.available_verbs[k]]
                     \notin call'.prompt.verbs_to_avoid]_vars

\* a bullet's payload names a verb to avoid that has just reached 3 uses
C24_VerbJustOverused ==
    /\ call.section_type = "experience"
    /\ call.ai_called
    /\ \E v \in call.prompt.verbs_to_avoid :
           /\ v \in VerbsOccurringIn(call.content)
           /\ used_verbs[v] = 3

\* the parts of a payload that state the constraints
ConstraintParts ==
    {"verbs_to_avoid", "available_verbs", "metrics_guidance",
     "add_metrics_instruction"}

\* C25: whatever the unit type (summary, experience, projects), the payload
\* sent to the collaborator carries the verbs to avoid with the available
\* verbs, and the add-a-metric instruction when the text is flagged as
\* needing a metric (no metric in it, coverage found below 85%).
C25_ConstraintsInEveryPayload ==
    (call.section_type \in SectionTypes /\ call.ai_called) =>
        /\ ConstraintParts \subseteq DOMAIN call.prompt
        /\ call.prompt.verbs_to_avoid \subseteq VerbKeys
        /\ call.prompt.add_metrics_instruction =
               /\ ~_has_metrics(call.content)
               /\ \/ call.bullets_total = 0
                  \/ call.bullets_with_metrics * 100 < 85 * call.bullets_total

\* the place of a unit in the order of the claim: the summary, then the
\* selected entries from the oldest (the last of a list stored most recent
\* first) to the most recent, bullets in list order, then the projects
Place(u) ==
    IF u[1] = "summary" THEN <<0, 0, 0>>
    ELSE IF u[1] = "experience" THEN <<1, 0 - u[2], u[3]>>
    ELSE <<2, u[2], 0>>

Precedes(u, w) ==
    \/ Place(u)[1] < Place(w)[1]
    \/ Place(u)[1] = Place(w)[1] /\ Place(u)[2] < Place(w)[2]
    \/ Place(u)[1] = Place(w)[1] /\ Place(u)[2] = Place(w)[2]
          /\ Place(u)[3] < Place(w)[3]

\* C26: within a run of optimize_resume_data, when the rewrite engine is
\* called for a unit, it has already been called for every eligible unit of
\* the document that comes before it in the order summary, selected
\* experience entries from oldest to most recent (bullets in list order),
\* featured projects in list order.
C26_CallsInDocumentOrderOldestFirst ==
    [][(CallMade /\ pc # "idle") =>
          \A w \in DOMAIN returned' \ DOMAIN returned :
          \A u \in EligibleUnits(original_data) :
              Precedes(u, w) => u \in DOMAIN returned]_vars

\* the place of a unit in the order of the lists: the summary, the selected
\* entries as the list has them (most recent first), the projects
ListPlace(u) ==
    IF u[1] = "summary" THEN <<0, 0, 0>>
    ELSE IF u[1] = "experience" THEN <<1, u[2], u[3]>>
    ELSE <<2, u[2], 0>>

ListPrecedes(u, w) ==
    \/ ListPlace(u)[1] < ListPlace(w)[1]
    \/ ListPlace(u)[1] = ListPlace(w)[1] /\ ListPlace(u)[2] < ListPlace(w)[2]
    \/ ListPlace(u)[1] = ListPlace(w)[1] /\ ListPlace(u)[2] = ListPlace(w)[2]
          /\ ListPlace(u)[3] < ListPlace(w)[3]

\* C26, amended: within a run, when the rewrite engine is called for a unit,
\* it has already been called for every eligible unit that comes before it
\* in the order summary, selected experience entries in list order (from the
\* most recent to the oldest of the three), bullets in list order, featured
\* projects in list order.
C26_CallsInListOrder ==
    [][(CallMade /\ pc # "idle") =>
          \A w \in DOMAIN returned' \ DOMAIN returned :
          \A u \in EligibleUnits(original_data) :
              ListPrecedes(u, w) => u \in DOMAIN returned]_vars

\* a run has gone through a summary, bullets of three entries and a project
C26_RunThroughAllKinds ==
    /\ pc = "done"
    /\ {<<"summary", 0, 0>>, <<"experience", 1, 1>>, <<"experience", 2, 1>>,
        <<"experience", 3, 1>>, <<"projects", 2, 0>>} \subseteq DOMAIN returned

\* the bullets of a rendered document: the arguments of \resumeItem{...},
\* or, when there is none, the stretches that follow each "\item "
BulletTexts(text) ==
    IF count(text, "\\resumeItem{") > 0
    THEN [k \in DOMAIN Bullets(text) |-> bullet_text(Bullets(text)[k])]
    ELSE Tail(split(text, "\\item "))

BulletTextsWithMetric(text) ==
    Cardinality({k \in DOMAIN BulletTexts(text) : has_metric(BulletTexts(text)[k])})

\* the step function of the claim on W bullets with a metric out of B
MetricSteps(W, B) ==
    IF B = 0 THEN 5 * Point
    ELSE IF 10 * W >= 9 * B THEN 15 * Point
    ELSE IF 10 * W >= 7 * B THEN 12 * Point
    ELSE IF 10 * W >= 5 * B THEN 8 * Point
    ELSE Max(3, (15 * W) \div B) * Point

\* what _analyze_content leaves of a new analyzer
Analysed(text) == _analyze_content(NewAnalyzer, text).self

\* the content score of a new analyzer's report for a text, were its metric
\* and section-balance components the given ones: the other three
\* components are those of the code
ContentWith(text, metric_component, balance_component) ==
    Round1(Min(50 * Point,
               metric_component
               + Min(10 * Point, _calculate_power_verb_score(Analysed(text)))
               + Min(10 * Point, balance_component)
               + Min(10 * Point, _check_professional_language(text))
               + Max(0, 5 - _check_fluff_words(text)) * Point))

\* C27: in the report of a new analyzer for a document with B bullets, marked
\* with \item or with \resumeItem{...}, W of them containing a metric, the
\* metric component of the content score is 15 if W/B >= 0.9, 12 if >= 0.7,
\* 8 if >= 0.5, otherwise max(3, floor(15 W/B)), and 5 when B = 0.
C27_MetricComponentFollowsRatio ==
    Len(analyses) >= 1 =>
        analyses[1].report.score.content =
            ContentWith(analyses[1].text,
                        MetricSteps(BulletTextsWithMetric(analyses[1].text),
                                    Len(BulletTexts(analyses[1].text))),
                        _calculate_section_balance(Analysed(analyses[1].text)))

\* the sections of a rendered document: what follows each \section{ ,
\* the name up to the closing brace and the words after it
SectionParts(text) == Tail(split(lower(text), "\\section{"))

SectionName(part) ==
    IF Find(part, "}", 1) = 0 THEN part ELSE SubSeq(part, 1, Find(part, "}", 1) - 1)

SectionWords(part) ==
    IF Find(part, "}", 1) = 0 THEN 0 ELSE Len(SplitFrom(part, Find(part, "}", 1) + 1))

TotalWordsIn(text) ==
    SumValues([k \in DOMAIN SectionParts(text) |-> SectionWords(SectionParts(text)[k])])

ExperienceWordsIn(text) ==
    SumValues([k \in DOMAIN SectionParts(text) |->
                  IF SectionName(SectionParts(text)[k]) = "experience"
                  THEN SectionWords(SectionParts(text)[k]) ELSE 0])

\* the section-balance component of the claim for a share of e words in t
BalanceSteps(e, t) ==
    IF 40 * t <= 100 * e /\ 100 * e <= 50 * t THEN 10 * Point
    ELSE IF \/ 35 * t <= 100 * e /\ 100 * e < 40 * t
            \/ 50 * t < 100 * e /\ 100 * e <= 55 * t
    THEN 8 * Point
    ELSE 6 * Point

\* C28: in the report of a new analyzer for a document with an experience
\* section, the section-balance component of the content score is 10 when the experience
\* section holds 40-50% of the words, 8 when it holds 35-40% or 50-55%, and
\* 6 otherwise; documents with shares of 45% and 10% differ in it.
C28_BalanceFollowsExperienceShare ==
    (Len(analyses) >= 1 /\ ExperienceWordsIn(analyses[1].text) > 0) =>
        analyses[1].report.score.content =
            ContentWith(analyses[1].text,
                        MetricsScore(Analysed(analyses[1].text).bullets_with_metrics,
                                     Analysed(analyses[1].text).bullets_analyzed),
                        BalanceSteps(ExperienceWordsIn(analyses[1].text),
                                     TotalWordsIn(analyses[1].text)))

\* C29: in every state of a run of optimize_resume_data, the bullets counted
\* as having a metric are at most the bullets counted, so the coverage that
\* decides needs_metrics is at most 100%.
C29_CoverageAtMostFull ==
    pc # "idle" => bullets_with_metrics <= bullets_total

\* a run in which every counted bullet counts as having a metric, one of
\* them since the pre-count of its entry and one since its rewrite
C29_FullCoverageBothWays ==
    /\ pc # "idle"
    /\ bullets_total >= 2
    /\ bullets_with_metrics = bullets_total
    /\ \E u \in DOMAIN returned :
           /\ u[1] = "experience"
           /\ _has_metrics(returned[u].original)
    /\ \E u \in DOMAIN returned :
           /\ u[1] = "experience"
           /\ ~_has_metrics(returned[u].original)
           /\ _has_metrics(returned[u].optimized)

\* C30: whenever a report recommends 'Add metrics to N more bullet points',
\* N is at least 1.
C30_RecommendsAtLeastOneBullet ==
    \A k \in DOMAIN analyses :
    \A j \in DOMAIN analyses[k].report.recommendations :
        analyses[k].report.recommendations[j][1] = "Add metrics to" =>
            analyses[k].report.recommendations[j][2] >= 1

====
